---- MODULE Spec2Model ----
(***************************************************************************)
(* The Streamlit chat front-end: conversation context (src/ai_features.py), *)
(* usage statistics and conversation files (src/analytics.py), credential  *)
(* to model routing (src/api_client.py), users, login and registration     *)
(* (src/auth.py, src/utils.py) and the page flows (src/app.py).            *)
(*                                                                         *)
(* The specifications share the variables:                                 *)
(*   Spec           the session's conversation context and the requests    *)
(*                  built for the provider;                                *)
(*   SpecAnalytics  sequential update_analytics calls on the statistics    *)
(*                  snapshot, with a readable and writable store;          *)
(*   SpecStore      the statistics store with failing reads and writes;    *)
(*   SpecRace       update_analytics called by two sessions at once;       *)
(*   SpecHistory    the conversation files of two users, saved and read;   *)
(*   SpecSummary    get_analytics_summary over statistics of many users;   *)
(*   SpecAuth       login and logout over the contents of users.csv;       *)
(*   SpecRegister   registration and the login form, from no users.csv;    *)
(*   SpecReadable   the same with users.csv read without error;            *)
(*   SpecApp        the page flows of a logged-in user;                    *)
(*   SpecRouter     the functions of the API client applied to every       *)
(*                  environment of the four credential variables;          *)
(*   SpecSession    one browser session used by one user after another.    *)
(***************************************************************************)
EXTENDS Integers, Sequences, FiniteSets, TLC

VARIABLES
    env,                    \* os.environ: OPENROUTER_API_KEY_1..4
    session_api_keys,       \* st.session_state.api_keys
    conversation_history,   \* st.session_state.conversation_history
    system_prompt,          \* st.session_state.system_prompt
    request,                \* the JSON body of the last requests.post
    lastCall,               \* inputs and outcome of the last context call
    analytics_file,         \* the content of analytics_data.json
    applied,                \* the records passed to update_analytics so far
    routerCall,             \* inputs and result of the last api_client call
    storeCall,              \* inputs and result of the last analytics call
    pending,                \* per session: the update_analytics call between its load and its save
    users_csv,              \* the rows of users.csv
    user_log,               \* the rows of user_log.csv
    session_authenticated,  \* st.session_state.authenticated
    session_username,       \* st.session_state.username
    session_id,             \* st.session_state.session_id
    authCall,               \* inputs and result of the last auth call
    flowCall,               \* the provider results and saves of the last page flow
    provider_calls,         \* number of provider calls the page flows made
    conversations,          \* st.session_state.conversations
    history_dir,            \* the files of conversation_history/
    clock                   \* the wall clock, in seconds

authVars == <<users_csv, user_log, session_authenticated, session_username, session_id, authCall>>

flowVars == <<flowCall, provider_calls, conversations, history_dir, clock>>

vars == <<env, session_api_keys, conversation_history, system_prompt, request,
          lastCall, analytics_file, applied, routerCall, storeCall, pending,
          authVars, flowVars>>

-----------------------------------------------------------------------------
(* Bounds of the model *)

\* number of update_analytics calls explored
MaxRecords == 3
\* length the stored conversation may reach before the model stops sending
MaxHistory == 4
\* bits of significand of the modelled binary floating point (a double has 53)
Precision == 4

\* the latest second the wall clock reaches
MaxClock == 2

\* the most users in the statistics that get_analytics_summary is applied to
MaxSummaryUsers == 6

\* the most rows of the login log
MaxLogins == 2

\* the most provider calls the page flows make
MaxProviderCalls == 2

\* the most conversations saved where the conversation files are read back
MaxSaved == 2

\* the most rows of users.csv where users register
MaxRegistered == 2

-----------------------------------------------------------------------------
(* Binary floating point: a value is m * 2^e with 2^(Precision-1) <= m <   *)
(* 2^Precision, or zero; every operation rounds to nearest, ties to even.  *)

RECURSIVE Pow2(_)
Pow2(n) == IF n <= 0 THEN 1 ELSE 2 * Pow2(n - 1)

MaxShift == Precision + 6

Zero == [m |-> 0, e |-> 0]

\* the float nearest to (a / b) * 2^e, for a >= 0 and b > 0
RoundRat(a, b, e) ==
    IF a = 0 THEN Zero
    ELSE LET lo == Pow2(Precision - 1)
             hi == Pow2(Precision)
             Num(s) == IF s < 0 THEN a * Pow2(-s) ELSE a
             Den(s) == IF s < 0 THEN b ELSE b * Pow2(s)
             s == CHOOSE t \in -MaxShift..MaxShift :
                      /\ lo * Den(t) <= Num(t)
                      /\ Num(t) < hi * Den(t)
             q == Num(s) \div Den(s)
             r == Num(s) % Den(s)
             up == \/ 2 * r > Den(s)
                   \/ 2 * r = Den(s) /\ q % 2 = 1
             m == IF up THEN q + 1 ELSE q
         IN  IF m = hi THEN [m |-> lo, e |-> e + s + 1]
                       ELSE [m |-> m, e |-> e + s]

Min(a, b) == IF a <= b THEN a ELSE b

\* float * int
FMulInt(f, k) == RoundRat(f.m * k, 1, f.e)

\* float + float
FAdd(f, g) ==
    LET e0 == Min(f.e, g.e)
    IN  RoundRat(f.m * Pow2(f.e - e0) + g.m * Pow2(g.e - e0), 1, e0)

\* float / int
FDivInt(f, k) == RoundRat(f.m, k, f.e)

\* the float of a decimal literal num/den
FloatOf(num, den) == RoundRat(num, den, 0)

\* a float in units of 2^-(Precision+2), exact for every float >= 1/4
Units(f) == f.m * Pow2(f.e + Precision + 2)
UnitsPerOne == Pow2(Precision + 2)

-----------------------------------------------------------------------------
(* Python dict with string keys and int values, in insertion order: a      *)
(* sequence of [k, v] entries with distinct keys.                          *)

EmptyDict == << >>

DictKeys(d) == {d[i].k : i \in DOMAIN d}

DictHas(d, key) == key \in DictKeys(d)

DictGet(d, key) == d[CHOOSE i \in DOMAIN d : d[i].k = key].v

\* d[key] = v
DictSet(d, key, v) ==
    IF DictHas(d, key)
    THEN [i \in DOMAIN d |-> IF d[i].k = key THEN [k |-> key, v |-> v] ELSE d[i]]
    ELSE Append(d, [k |-> key, v |-> v])

RECURSIVE SumValues(_)
SumValues(d) == IF d = << >> THEN 0 ELSE d[1].v + SumValues(Tail(d))

-----------------------------------------------------------------------------
(* Usage statistics (src/analytics.py) *)

\* analytics_data.json does not exist / holds a document
NoFile == [exists |-> FALSE, doc |-> << >>]
FileOf(doc) == [exists |-> TRUE, doc |-> doc]

\* the default statistics of load_analytics
ZeroAnalytics ==
    [total_conversations |-> 0,
     total_tokens        |-> 0,
     avg_response_time   |-> Zero,
     model_usage         |-> EmptyDict,
     user_activity       |-> EmptyDict]

AnalyticsFields ==
    <<"total_conversations", "total_tokens", "avg_response_time",
      "model_usage", "user_activity">>

RECURSIVE Pow10(_)
Pow10(n) == IF n <= 0 THEN 1 ELSE 10 * Pow10(n - 1)

\* the integer nearest to x * 10^places, ties to even
DecimalDigits(x, places) ==
    LET num == IF x.e >= 0 THEN x.m * Pow2(x.e) * Pow10(places) ELSE x.m * Pow10(places)
        den == IF x.e >= 0 THEN 1 ELSE Pow2(-x.e)
        q   == num \div den
        r   == num % den
    IN  IF 2 * r > den \/ (2 * r = den /\ q % 2 = 1) THEN q + 1 ELSE q

\* the fewest decimal places, from p on, with which x reads back as itself;
\* with -x.e places the decimal is exact
RECURSIVE ShortestPlaces(_, _)
ShortestPlaces(x, p) ==
    IF p >= -x.e \/ RoundRat(DecimalDigits(x, p), Pow10(p), 0) = x THEN p
    ELSE ShortestPlaces(x, p + 1)

\* float.__repr__, as json.dump writes a float: the decimal literal with the
\* fewest places that reads back as the same float
FloatRepr(x) ==
    IF x.m = 0 THEN [digits |-> 0, places |-> 0]
    ELSE LET places == ShortestPlaces(x, 0)
         IN  [digits |-> DecimalDigits(x, places), places |-> places]

\* float(literal), as json.load reads a number: the nearest float
ParseNumber(literal) == RoundRat(literal.digits, Pow10(literal.places), 0)

\* the JSON object of a dict, members in the dict's order
JsonObject(d) == [i \in DOMAIN d |-> [name |-> d[i].k, value |-> d[i].v]]

\* the dict of a JSON object: a repeated name keeps its place, the last value
RECURSIVE DictOfObject(_)
DictOfObject(members) ==
    IF members = << >> THEN EmptyDict
    ELSE LET n == Len(members)
         IN  DictSet(DictOfObject(SubSeq(members, 1, n - 1)),
                     members[n].name, members[n].value)

JsonMember(doc, name) == doc[CHOOSE i \in DOMAIN doc : doc[i].name = name].value

\* json.dump: the document is the ordered list of the object's members
JsonDump(data) ==
    [i \in DOMAIN AnalyticsFields |->
        [name  |-> AnalyticsFields[i],
         value |-> CASE AnalyticsFields[i] = "avg_response_time" ->
                            FloatRepr(data.avg_response_time)
                     [] AnalyticsFields[i] = "model_usage" ->
                            JsonObject(data.model_usage)
                     [] AnalyticsFields[i] = "user_activity" ->
                            JsonObject(data.user_activity)
                     [] OTHER -> data[AnalyticsFields[i]]]]

\* json.load: the dict of the document's members
JsonLoad(doc) ==
    [total_conversations |-> JsonMember(doc, "total_conversations"),
     total_tokens        |-> JsonMember(doc, "total_tokens"),
     avg_response_time   |-> ParseNumber(JsonMember(doc, "avg_response_time")),
     model_usage         |-> DictOfObject(JsonMember(doc, "model_usage")),
     user_activity       |-> DictOfObject(JsonMember(doc, "user_activity"))]

\* variant: an unreadable file is read all the same
LoadAnalyticsIgnoringErrors(file, readable) ==
    IF file.exists THEN JsonLoad(file.doc) ELSE ZeroAnalytics

\* load_analytics: the default when the file is absent or cannot be read
LoadAnalytics(file, readable) ==
    IF ~file.exists THEN ZeroAnalytics
    ELSE IF readable THEN JsonLoad(file.doc)
    ELSE ZeroAnalytics

\* variant: the document is appended to the file (mode 'a')
SaveAnalyticsAppend(file, analytics_data, writable) ==
    IF writable THEN FileOf(file.doc \o JsonDump(analytics_data)) ELSE file

\* save_analytics: the file after the call; an error leaves it as it was
SaveAnalytics(file, analytics_data, writable) ==
    IF writable THEN FileOf(JsonDump(analytics_data)) ELSE file

\* variant: the count is stored as 1 whether or not the key is present
IncrementOverwrite(d, key) == DictSet(d, key, 1)

\* the dict after "if key in d: d[key] += 1 else: d[key] = 1"
Increment(d, key) ==
    IF DictHas(d, key) THEN DictSet(d, key, DictGet(d, key) + 1)
    ELSE DictSet(d, key, 1)

\* variant: the old average weighted by the new count
RunningAverageNewCount(old_avg, new_count, new_time) ==
    FDivInt(FAdd(FMulInt(old_avg, new_count), new_time), new_count)

\* ((old_avg * (new_count - 1)) + new_time) / new_count
RunningAverage(old_avg, new_count, new_time) ==
    FDivInt(FAdd(FMulInt(old_avg, new_count - 1), new_time), new_count)

\* the statistics update_analytics computes from the loaded ones
UpdateAnalytics(analytics, conversation_data) ==
    LET new_count == analytics.total_conversations + 1
    IN  [total_conversations |-> new_count,
         total_tokens        |-> analytics.total_tokens
                                    + conversation_data.total_tokens,
         avg_response_time   |-> RunningAverage(analytics.avg_response_time,
                                    new_count, conversation_data.response_time),
         model_usage         |-> Increment(analytics.model_usage,
                                    conversation_data.model),
         user_activity       |-> Increment(analytics.user_activity,
                                    conversation_data.username)]

\* variant: total_tokens without the response tokens
ConversationDataPromptOnly(username, model, response_time, prompt_tokens, response_tokens) ==
    [username        |-> username,
     model           |-> model,
     response_time   |-> response_time,
     prompt_tokens   |-> prompt_tokens,
     response_tokens |-> response_tokens,
     total_tokens    |-> prompt_tokens]

\* the conversation_data dict save_conversation builds
ConversationData(username, model, response_time, prompt_tokens, response_tokens) ==
    [username        |-> username,
     model           |-> model,
     response_time   |-> response_time,
     prompt_tokens   |-> prompt_tokens,
     response_tokens |-> response_tokens,
     total_tokens    |-> prompt_tokens + response_tokens]

\* the characters of the strings of the model
Chars(str) ==
    CASE str = ""            -> << >>
      [] str = "alice"       -> <<"a", "l", "i", "c", "e">>
      [] str = "bob"         -> <<"b", "o", "b">>
      [] str = "bob_2"       -> <<"b", "o", "b", "_", "2">>
      [] str = "admin"       -> <<"a", "d", "m", "i", "n">>
      [] str = "user"        -> <<"u", "s", "e", "r">>
      [] str = "al"          -> <<"a", "l">>
      [] str = "a b"         -> <<"a", " ", "b">>
      [] str = "___"         -> <<"_", "_", "_">>
      [] str = "   "         -> <<" ", " ", " ">>
      [] str = "abc12"       -> <<"a", "b", "c", "1", "2">>
      [] str = "secret1"     -> <<"s", "e", "c", "r", "e", "t", "1">>
      [] str = " secret1"    -> <<" ", "s", "e", "c", "r", "e", "t", "1">>
      [] str = "password123" -> <<"p", "a", "s", "s", "w", "o", "r", "d", "1", "2", "3">>
      [] str = "nomail"      -> <<"n", "o", "m", "a", "i", "l">>
      [] str = "a@b"         -> <<"a", "@", "b">>

\* the decimal digits
Digits == <<"0", "1", "2", "3", "4", "5", "6", "7", "8", "9">>

\* datetime.now().strftime("%Y%m%d_%H%M%S") at second timestamp of the
\* modelled day: the date, an underscore, and the time of day, whose last
\* digit is the second
StrFTime(timestamp) ==
    <<"2", "0", "2", "4", "0", "1", "0", "1", "_", "0", "0", "0", "0", "0",
      Digits[timestamp + 1]>>

\* variant: the name has the time of day without the second
FilenameByMinute(username, timestamp) ==
    Chars(username) \o <<"_">> \o SubSeq(StrFTime(timestamp), 1, 14)
        \o <<".", "j", "s", "o", "n">>

\* the name of a conversation file: f"{HISTORY_DIR}/{username}_{timestamp}.json",
\* as the characters after the directory
Filename(username, timestamp) ==
    Chars(username) \o <<"_">> \o StrFTime(timestamp) \o <<".", "j", "s", "o", "n">>

\* the document save_conversation writes
HistoryDocument(conversation_data, prompt, response, timestamp) ==
    [username        |-> conversation_data.username,
     timestamp       |-> timestamp,
     prompt          |-> prompt,
     response        |-> response,
     model           |-> conversation_data.model,
     response_time   |-> conversation_data.response_time,
     prompt_tokens   |-> conversation_data.prompt_tokens,
     response_tokens |-> conversation_data.response_tokens,
     total_tokens    |-> conversation_data.total_tokens]

\* one step of the stable descending sort by timestamp: the conversation goes
\* after every conversation whose timestamp is later or equal
InsertByTimestamp(ordered, item) ==
    LET before == {i \in DOMAIN ordered : ordered[i].timestamp >= item.timestamp}
        n      == Cardinality(before)
    IN  SubSeq(ordered, 1, n) \o <<item>> \o SubSeq(ordered, n + 1, Len(ordered))

\* conversations.sort(key=lambda x: x["timestamp"], reverse=True)
RECURSIVE SortedByTimestamp(_)
SortedByTimestamp(items) ==
    IF items = << >> THEN << >>
    ELSE LET n == Len(items)
         IN  InsertByTimestamp(SortedByTimestamp(SubSeq(items, 1, n - 1)), items[n])

\* str.startswith and str.endswith on the characters of a file name
NameStartsWith(name, prefix) ==
    /\ Len(name) >= Len(prefix)
    /\ SubSeq(name, 1, Len(prefix)) = prefix

NameEndsWith(name, suffix) ==
    /\ Len(name) >= Len(suffix)
    /\ SubSeq(name, Len(name) - Len(suffix) + 1, Len(name)) = suffix

\* the loop of get_user_conversations over os.listdir, which lists the files
\* of dir in the order listing: the documents of the files whose name starts
\* with f"{username}_" and ends with ".json"
RECURSIVE ListedConversations(_, _, _)
ListedConversations(dir, username, listing) ==
    IF listing = << >> THEN << >>
    ELSE LET n      == Len(listing)
             before == ListedConversations(dir, username, SubSeq(listing, 1, n - 1))
             file   == dir[listing[n]]
         IN  IF /\ NameStartsWith(file.k, Chars(username) \o <<"_">>)
                /\ NameEndsWith(file.k, <<".", "j", "s", "o", "n">>)
             THEN Append(before, file.v)
             ELSE before

\* get_user_conversations(username)
GetUserConversations(dir, username, listing) ==
    SortedByTimestamp(ListedConversations(dir, username, listing))

\* no export: export_user_history_json returns None
NoExport ==
    [some |-> FALSE, username |-> "", export_date |-> 0, conversation_count |-> 0,
     conversations |-> << >>]

\* export_user_history_json(username) at second now
ExportUserHistoryJson(dir, username, listing, now) ==
    LET found == GetUserConversations(dir, username, listing)
    IN  IF found = << >> THEN NoExport
        ELSE [some |-> TRUE, username |-> username, export_date |-> now,
              conversation_count |-> Len(found),
              conversations |-> found]

\* the slice bound of top_models[:5] and top_users[:5]
TopN == 5

\* variant: an item goes before the items of equal count
InsertByCountBeforeEqual(ordered, item) ==
    LET before == {i \in DOMAIN ordered : ordered[i].v > item.v}
        n      == Cardinality(before)
    IN  SubSeq(ordered, 1, n) \o <<item>> \o SubSeq(ordered, n + 1, Len(ordered))

\* one step of the stable descending sort: the item goes after every item
\* whose count is greater or equal
InsertByCount(ordered, item) ==
    LET before == {i \in DOMAIN ordered : ordered[i].v >= item.v}
        n      == Cardinality(before)
    IN  SubSeq(ordered, 1, n) \o <<item>> \o SubSeq(ordered, n + 1, Len(ordered))

\* sorted(d.items(), key=lambda x: x[1], reverse=True)
RECURSIVE SortedByCount(_)
SortedByCount(items) ==
    IF items = << >> THEN << >>
    ELSE LET n == Len(items)
         IN  InsertByCount(SortedByCount(SubSeq(items, 1, n - 1)), items[n])

\* s[:n]
Take(s, n) == SubSeq(s, 1, Min(n, Len(s)))

\* round(x, 2): the float nearest to the two-place decimal nearest to x
Round2(x) == ParseNumber([digits |-> DecimalDigits(x, 2), places |-> 2])

\* the dict get_analytics_summary returns for the loaded statistics
GetAnalyticsSummary(analytics) ==
    [total_conversations |-> analytics.total_conversations,
     total_tokens        |-> analytics.total_tokens,
     avg_response_time   |-> Round2(analytics.avg_response_time),
     top_models          |-> Take(SortedByCount(analytics.model_usage), TopN),
     top_users           |-> Take(SortedByCount(analytics.user_activity), TopN)]

-----------------------------------------------------------------------------
(* Optional values: Python's None and a present value *)

None == [some |-> FALSE, val |-> << >>]
Some(v) == [some |-> TRUE, val |-> v]

-----------------------------------------------------------------------------
(* API client (src/api_client.py). A credential is the tuple of its        *)
(* characters.                                                             *)

\* range(1, 5): the suffixes of OPENROUTER_API_KEY_<i>
NumKeyVars == 4

\* "sk-or-v1-"
KeyPrefix == <<"s", "k", "-", "o", "r", "-", "v", "1", "-">>

\* the models list of get_model_for_api_key
Models ==
    <<"deepseek/deepseek-chat",
      "google/gemini-2.0-flash-exp:free",
      "01-ai/yi-large",
      "qwen/qwen-2.5-72b-instruct">>

\* the literal returned on the two early fallbacks
DefaultModel == "deepseek/deepseek-chat"

\* str.startswith
StartsWith(str, prefix) ==
    /\ Len(str) >= Len(prefix)
    /\ SubSeq(str, 1, Len(prefix)) = prefix

\* load_api_keys: the set, non-empty variables in the order of their suffix
RECURSIVE LoadApiKeysFrom(_, _)
LoadApiKeysFrom(environ, i) ==
    IF i > NumKeyVars THEN << >>
    ELSE LET key == environ[i]
             rest == LoadApiKeysFrom(environ, i + 1)
         IN  IF key.some /\ key.val # << >> THEN <<key.val>> \o rest ELSE rest

LoadApiKeys(environ) == LoadApiKeysFrom(environ, 1)

\* variant: only the first key is checked for the prefix
ValidateApiKeysFirstOnly(api_keys) ==
    IF api_keys = << >> THEN FALSE
    ELSE StartsWith(api_keys[1], KeyPrefix)

\* validate_api_keys
ValidateApiKeys(api_keys) ==
    IF api_keys = << >> THEN FALSE
    ELSE IF \E i \in DOMAIN api_keys : ~StartsWith(api_keys[i], KeyPrefix) THEN FALSE
    ELSE Len(api_keys) > 0

\* variant: always the first key
GetRandomApiKeyFirst(api_keys) ==
    IF api_keys = << >> THEN {None} ELSE {Some(api_keys[1])}

\* get_random_api_key: the values random.choice can return
GetRandomApiKey(api_keys) ==
    IF api_keys = << >> THEN {None}
    ELSE {Some(api_keys[i]) : i \in DOMAIN api_keys}

\* variant: the last occurrence instead of the first
ListIndexLast(list, x) ==
    IF \E i \in DOMAIN list : list[i] = x
    THEN (CHOOSE i \in DOMAIN list :
              /\ list[i] = x
              /\ \A j \in (i + 1)..Len(list) : list[j] # x) - 1
    ELSE -1

\* list.index, 0-based; -1 stands for ValueError
ListIndex(list, x) ==
    IF \E i \in DOMAIN list : list[i] = x
    THEN (CHOOSE i \in DOMAIN list :
              /\ list[i] = x
              /\ \A j \in 1..(i - 1) : list[j] # x) - 1
    ELSE -1

\* variant: a missing key indexes the table with -1, the last model
GetModelForApiKeyNegativeIndex(api_key, environ) ==
    LET api_keys == LoadApiKeys(environ)
    IN  IF api_keys = << >> THEN DefaultModel
        ELSE LET key_index == IF api_key.some THEN ListIndex(api_keys, api_key.val)
                                              ELSE -1
             IN  IF key_index = -1 THEN Models[Len(Models)]
                 ELSE IF key_index < Len(Models) THEN Models[key_index + 1]
                 ELSE Models[1]

\* get_model_for_api_key
GetModelForApiKey(api_key, environ) ==
    LET api_keys == LoadApiKeys(environ)
    IN  IF api_keys = << >> THEN DefaultModel
        ELSE LET key_index == IF api_key.some THEN ListIndex(api_keys, api_key.val)
                                              ELSE -1
             IN  IF key_index = -1 THEN DefaultModel
                 ELSE IF key_index < Len(Models) THEN Models[key_index + 1]
                 ELSE Models[1]

-----------------------------------------------------------------------------
(* Conversation context (src/ai_features.py) and the request of            *)
(* generate_response (src/api_client.py)                                   *)

\* the directive initialize_conversation_context installs
DefaultSystemPrompt == "You are a helpful AI assistant."

Message(role, content) == [role |-> role, content |-> content]

\* variant: every message is stored with the role assistant
AddMessageToContextAsAssistant(history, role, content) ==
    Append(history, Message("assistant", content))

\* variant: the message is put in front
AddMessageToContextInFront(history, role, content) ==
    <<Message(role, content)>> \o history

\* add_message_to_context: the history after the append
AddMessageToContext(history, role, content) ==
    Append(history, Message(role, content))

\* variant: the whole context
WholeContext(seq) == seq

\* context[:-1]
AllButLast(seq) == IF seq = << >> THEN << >> ELSE SubSeq(seq, 1, Len(seq) - 1)

\* count_tokens: len(text) // 4
CountTokens(text) == Len(text) \div 4

\* variant: the system message appended after the history
BuildMessagesSystemAfterHistory(prompt, history_arg, system_prompt_arg) ==
    LET sys  == IF system_prompt_arg.some /\ system_prompt_arg.val # ""
                THEN <<Message("system", system_prompt_arg.val)>>
                ELSE << >>
        hist == IF history_arg.some /\ history_arg.val # << >>
                THEN history_arg.val
                ELSE << >>
    IN  hist \o sys \o <<Message("user", prompt)>>

\* the messages array generate_response builds
BuildMessages(prompt, history_arg, system_prompt_arg) ==
    LET sys  == IF system_prompt_arg.some /\ system_prompt_arg.val # ""
                THEN <<Message("system", system_prompt_arg.val)>>
                ELSE << >>
        hist == IF history_arg.some /\ history_arg.val # << >>
                THEN history_arg.val
                ELSE << >>
    IN  sys \o hist \o <<Message("user", prompt)>>

\* the body generate_response posts
RequestBody(prompt, api_key, environ, history_arg, system_prompt_arg) ==
    [model       |-> GetModelForApiKey(api_key, environ),
     messages    |-> BuildMessages(prompt, history_arg, system_prompt_arg),
     max_tokens  |-> 4000,
     stream      |-> FALSE]

\* variant: the history and the directive are passed whatever include_context is
ContextRequestAlways(prompt, api_key, environ, include_context, context, directive) ==
    RequestBody(prompt, api_key, environ, Some(AllButLast(context)), Some(directive))

\* the request of generate_response_with_context: with context[:-1] and the
\* directive when include_context, with neither otherwise
ContextRequest(prompt, api_key, environ, include_context, context, directive) ==
    IF include_context
    THEN RequestBody(prompt, api_key, environ, Some(AllButLast(context)), Some(directive))
    ELSE RequestBody(prompt, api_key, environ, None, None)

\* what the provider call can do
Outcomes ==
    {"content", "empty_content", "null_content", "no_choices",
     "request_error", "malformed_body"}

\* variant: a body without choices is reported as a success without content
GenerateResponseResultNoChoicesSucceeds(outcome, content) ==
    CASE outcome = "content"        -> [success |-> TRUE,  content |-> Some(content), error |-> None]
      [] outcome = "empty_content"  -> [success |-> TRUE,  content |-> Some(""), error |-> None]
      [] outcome = "null_content"   -> [success |-> TRUE,  content |-> None, error |-> None]
      [] outcome = "no_choices"     -> [success |-> TRUE,  content |-> None,
                                        error |-> Some("No response content received")]
      [] outcome = "request_error"  -> [success |-> FALSE, content |-> None,
                                        error |-> Some("Request error: ")]
      [] outcome = "malformed_body" -> [success |-> FALSE, content |-> None,
                                        error |-> Some("Unexpected error: ")]

\* the dict generate_response returns for an outcome of the provider call
GenerateResponseResult(outcome, content) ==
    CASE outcome = "content"        -> [success |-> TRUE,  content |-> Some(content), error |-> None]
      [] outcome = "empty_content"  -> [success |-> TRUE,  content |-> Some(""), error |-> None]
      [] outcome = "null_content"   -> [success |-> TRUE,  content |-> None, error |-> None]
      [] outcome = "no_choices"     -> [success |-> FALSE, content |-> None,
                                        error |-> Some("No response content received")]
      [] outcome = "request_error"  -> [success |-> FALSE, content |-> None,
                                        error |-> Some("Request error: ")]
      [] outcome = "malformed_body" -> [success |-> FALSE, content |-> None,
                                        error |-> Some("Unexpected error: ")]

-----------------------------------------------------------------------------
(* Inputs *)

KeyA     == KeyPrefix \o <<"a">>
KeyB     == KeyPrefix \o <<"b">>
KeyBare  == KeyPrefix
KeyShort == SubSeq(KeyPrefix, 1, Len(KeyPrefix) - 1)
KeyMid   == <<"x">> \o KeyPrefix \o <<"a">>

\* the values a credential variable can hold: unset, "", or a key
EnvValues ==
    {None, Some(<< >>), Some(KeyA), Some(KeyB), Some(KeyBare), Some(KeyShort),
     Some(KeyMid)}

\* the api_key arguments of generate_response_with_context tried
CallKeys == {Some(KeyB), Some(KeyMid)}

\* the api_key arguments of get_model_for_api_key tried
ApiKeyArgs == {None, Some(KeyA), Some(KeyB), Some(KeyBare), Some(KeyShort), Some(KeyMid)}

Prompts == {"hi", "tell me more"}
Replies == {"fine, thanks"}
Directives == {"", "Be terse."}

Usernames == {"alice", "bob"}
UsedModels == {Models[1], Models[2]}
Latencies == {FloatOf(1, 1), FloatOf(2, 1)}
TokenCounts == {<<0, 0>>, <<3, 5>>}
ResponseTimes == {FloatOf(2, 1)}

\* what the provider call can do, with the content it returns and the time
\* measured: the time and the content do not matter when there is no content
ProviderReplies ==
    {<<"content", c, t>> : c \in Replies, t \in ResponseTimes}
        \cup {<<"empty_content", "", t>> : t \in ResponseTimes}
        \cup {<<o, "", FloatOf(1, 1)>> : o \in Outcomes \ {"content", "empty_content"}}

\* the environment of the context specification: variables 1 and 3 are set
ContextEnv == [i \in 1..NumKeyVars |->
                  IF i = 1 THEN Some(KeyA) ELSE IF i = 3 THEN Some(KeyB) ELSE None]

-----------------------------------------------------------------------------
(* Initial values *)

NoRequest == [model |-> "", messages |-> << >>, max_tokens |-> 0, stream |-> FALSE]

NoResult ==
    [success |-> FALSE, content |-> None, error |-> None, response_time |-> Zero,
     prompt_tokens |-> 0, response_tokens |-> 0, model |-> ""]

\* no dict returned by generate_response
NoGenerated == [success |-> FALSE, content |-> None, error |-> None]

CallRecord(op) ==
    [op |-> op, prompt |-> "", api_key |-> None, include_context |-> FALSE,
     streaming |-> FALSE, posted |-> FALSE, outcome |-> "",
     generated |-> NoGenerated, returned |-> FALSE,
     exception |-> "", result |-> NoResult]

RouterRecord(fn) ==
    [fn |-> fn, api_key |-> None, api_keys |-> << >>, model |-> "",
     valid |-> FALSE, chosen |-> None]

InitSession ==
    /\ session_api_keys = << >>
    /\ conversation_history = << >>
    /\ system_prompt = DefaultSystemPrompt
    /\ request = NoRequest
    /\ lastCall = CallRecord("")

\* no summary computed
NoSummary ==
    [total_conversations |-> 0, total_tokens |-> 0, avg_response_time |-> Zero,
     top_models |-> << >>, top_users |-> << >>]

StoreRecord(op) ==
    [op |-> op, readable |-> TRUE, writable |-> TRUE, loaded |-> ZeroAnalytics,
     saved |-> ZeroAnalytics, raised |-> FALSE, summary |-> NoSummary,
     username |-> "", conversations |-> << >>, export |-> NoExport]

\* the browser sessions whose handlers run at the same time
Sessions == {"s1", "s2"}

\* a session that is not inside update_analytics
NotUpdating ==
    [active |-> FALSE, loaded |-> ZeroAnalytics,
     conversation_data |-> ConversationData("", "", Zero, 0, 0)]

InitStore ==
    /\ analytics_file = NoFile
    /\ applied = << >>
    /\ storeCall = StoreRecord("")
    /\ pending = [session \in Sessions |-> NotUpdating]

\* a CSV file that does not exist; an existing one has its header line
NoCsv == [exists |-> FALSE, rows |-> << >>]

CsvOf(rows) == [exists |-> TRUE, rows |-> rows]

\* VALID_USERS
VALID_USERS ==
    <<[k |-> "admin", v |-> "password123"],
      [k |-> "user",  v |-> "user123"],
      [k |-> "demo",  v |-> "demo123"],
      [k |-> "test",  v |-> "test123"]>>

\* a row of users.csv
UserRow(username, password) ==
    [username |-> username, password |-> password, registration_date |-> 0,
     email |-> ""]

\* ensure_users_csv_exists: an absent file is created with its header, when
\* it can be created
EnsureUsersCsvExists(csv, creatable) ==
    IF ~csv.exists /\ creatable THEN CsvOf(<< >>) ELSE csv

\* users[row['username']] = row['password'] for each row in turn
RECURSIVE MergeRows(_, _)
MergeRows(users, rows) ==
    IF rows = << >> THEN users
    ELSE LET n == Len(rows)
         IN  DictSet(MergeRows(users, SubSeq(rows, 1, n - 1)),
                     rows[n].username, rows[n].password)

\* variant: a row does not replace an entry the dict already has
RECURSIVE MergeRowsKeepingFirst(_, _)
MergeRowsKeepingFirst(users, rows) ==
    IF rows = << >> THEN users
    ELSE LET n      == Len(rows)
             before == MergeRowsKeepingFirst(users, SubSeq(rows, 1, n - 1))
         IN  IF DictHas(before, rows[n].username) THEN before
             ELSE DictSet(before, rows[n].username, rows[n].password)

\* variant: the demo accounts are not replaced by rows
LoadUsersFromCsvKeepingFirst(csv, rows_read) ==
    IF csv.exists
    THEN MergeRowsKeepingFirst(VALID_USERS, SubSeq(csv.rows, 1, Min(rows_read, Len(csv.rows))))
    ELSE VALID_USERS

\* load_users_from_csv, after ensure_users_csv_exists: the demo accounts
\* with the rows read in turn on top; reading stops at an error, after
\* rows_read rows (all of them when there is no error)
LoadUsersFromCsv(csv, rows_read) ==
    IF csv.exists
    THEN MergeRows(VALID_USERS, SubSeq(csv.rows, 1, Min(rows_read, Len(csv.rows))))
    ELSE VALID_USERS

\* the letters and digits of the strings of the model
AlnumChars ==
    {"a", "b", "c", "d", "e", "i", "l", "m", "n", "o", "p", "r", "s", "t", "u",
     "w", "0", "1", "2", "3"}

\* str.strip(): without the spaces at both ends
RECURSIVE LStrip(_)
LStrip(chars) ==
    IF chars # << >> /\ chars[1] = " " THEN LStrip(Tail(chars)) ELSE chars

RECURSIVE RStrip(_)
RStrip(chars) ==
    IF chars # << >> /\ chars[Len(chars)] = " "
    THEN RStrip(SubSeq(chars, 1, Len(chars) - 1))
    ELSE chars

Strip(chars) == RStrip(LStrip(chars))

\* str.replace(c, '')
RECURSIVE Without(_, _)
Without(chars, c) ==
    IF chars = << >> THEN << >>
    ELSE (IF chars[1] = c THEN << >> ELSE <<chars[1]>>) \o Without(Tail(chars), c)

\* str.isalnum(): not empty, and letters and digits only
IsAlnum(chars) ==
    /\ chars # << >>
    /\ \A i \in DOMAIN chars : chars[i] \in AlnumChars

\* c in str
Contains(chars, c) == \E i \in DOMAIN chars : chars[i] = c

\* no validation error: the validators return None
NoError == << >>

\* validate_registration_form: the error message, or none
ValidateRegistrationForm(username, password, email) ==
    IF Strip(Chars(username)) = << >> THEN <<"Username cannot be empty">>
    ELSE IF Strip(Chars(password)) = << >> THEN <<"Password cannot be empty">>
    ELSE IF Len(Strip(Chars(username))) < 3
         THEN <<"Username must be at least 3 characters long">>
    ELSE IF Len(Strip(Chars(password))) < 6
         THEN <<"Password must be at least 6 characters long">>
    ELSE IF ~IsAlnum(Without(Without(Chars(username), "_"), "-"))
         THEN <<"Username can only contain letters, numbers, hyphens, and underscores">>
    ELSE IF email # "" /\ ~Contains(Chars(email), "@")
         THEN <<"Please enter a valid email address">>
    ELSE NoError

\* variant: the password must have 8 characters
ValidateLoginFormLongPassword(username, password) ==
    IF Strip(Chars(username)) = << >> THEN <<"Username cannot be empty">>
    ELSE IF Strip(Chars(password)) = << >> THEN <<"Password cannot be empty">>
    ELSE IF Len(Strip(Chars(username))) < 2
         THEN <<"Username must be at least 2 characters long">>
    ELSE IF Len(Strip(Chars(password))) < 8
         THEN <<"Password must be at least 8 characters long">>
    ELSE NoError

\* validate_login_form: the error message, or none
ValidateLoginForm(username, password) ==
    IF Strip(Chars(username)) = << >> THEN <<"Username cannot be empty">>
    ELSE IF Strip(Chars(password)) = << >> THEN <<"Password cannot be empty">>
    ELSE IF Len(Strip(Chars(username))) < 2
         THEN <<"Username must be at least 2 characters long">>
    ELSE IF Len(Strip(Chars(password))) < 3
         THEN <<"Password must be at least 3 characters long">>
    ELSE NoError

\* user_exists; users is what load_users_from_csv returns
UserExists(username, users) == DictHas(users, username)

\* save_user_to_csv at second now, after ensure_users_csv_exists: the row is
\* appended unless the file cannot be written
SaveUserToCsv(csv, username, password, email, now, writable) ==
    IF writable
    THEN CsvOf(Append(csv.rows, [UserRow(username, password) EXCEPT
                                    !.registration_date = now, !.email = email]))
    ELSE csv

\* the dict register_user returns
RegisterResult(success, message) ==
    [success |-> success, message |-> message, username |-> None]

\* authenticate_user; users is what load_users_from_csv returns
AuthenticateUser(username, password, users) ==
    IF username = "" \/ password = "" THEN FALSE
    ELSE DictHas(users, username) /\ DictGet(users, username) = password

\* variant: the log file is opened in mode 'w'
LogUserActivityTruncating(log, username, timestamp, id, writable) ==
    IF writable
    THEN CsvOf(<<[username |-> username, login_timestamp |-> timestamp,
                  session_id |-> id]>>)
    ELSE log

\* log_user_activity: the log after the call; the row is appended unless
\* the file cannot be written
LogUserActivity(log, username, timestamp, id, writable) ==
    IF writable
    THEN CsvOf(Append(log.rows, [username |-> username, login_timestamp |-> timestamp,
                                 session_id |-> id]))
    ELSE log

\* the dict login_user returns
LoginResult(accepted, username) ==
    IF accepted
    THEN [success |-> TRUE, message |-> <<"Welcome, ", username, "! Login successful.">>,
          username |-> Some(username)]
    ELSE [success |-> FALSE,
          message |-> <<"Invalid username or password. Please try again.">>,
          username |-> None]

NoLoginResult == [success |-> FALSE, message |-> << >>, username |-> None]

AuthRecord(op) ==
    [op |-> op, username |-> "", password |-> "", rows_read |-> 0,
     log_writable |-> TRUE, accepted |-> FALSE, result |-> NoLoginResult,
     email |-> "", writable |-> TRUE, validation_error |-> NoError]

InitSessionAuth ==
    /\ session_authenticated = FALSE
    /\ session_username = ""
    /\ session_id = ""
    /\ authCall = AuthRecord("")

InitAuth ==
    /\ users_csv = NoCsv
    /\ user_log = NoCsv
    /\ InitSessionAuth

FlowRecord(flow) == [flow |-> flow, results |-> << >>, saved |-> 0]

InitFlow ==
    /\ flowCall = FlowRecord("")
    /\ provider_calls = 0
    /\ conversations = << >>
    /\ history_dir = EmptyDict
    /\ clock = 0

InitRouterCall == routerCall = RouterRecord("")

-----------------------------------------------------------------------------
(* Conversation context: the operations *)

\* generate_response_with_context(prompt, api_key, include_context, streaming),
\* with the provider's outcome and the measured time: the context and the
\* request body after the call, and the record of the call
ContextCall(history, directive, environ, prompt, api_key, include_context, streaming, outcome, content, response_time) ==
    LET ctx1  == AddMessageToContext(history, "user", prompt)
        model == GetModelForApiKey(api_key, environ)
        call  == [CallRecord("generate_response_with_context") EXCEPT
                     !.prompt = prompt, !.api_key = api_key,
                     !.include_context = include_context,
                     !.streaming = streaming]
    IN  IF streaming
        THEN [conversation_history |-> ctx1,
              posts |-> FALSE,
              request |-> NoRequest,
              lastCall |-> [call EXCEPT
                  !.returned = TRUE,
                  !.result = [success |-> FALSE, content |-> None,
                              error |-> Some("Streaming is not supported in generate_response_with_context"),
                              response_time |-> Zero,
                              prompt_tokens |-> CountTokens(prompt),
                              response_tokens |-> 0,
                              model |-> model]]]
        ELSE LET body   == ContextRequest(prompt, api_key, environ, include_context,
                                          ctx1, directive)
                 result == GenerateResponseResult(outcome, content)
                 truthy == result.content.some /\ result.content.val # ""
                 ctx2   == IF result.success /\ truthy
                           THEN AddMessageToContext(ctx1, "assistant", result.content.val)
                           ELSE ctx1
                 \* count_tokens(None) raises TypeError at len(text)
                 raises == ~result.content.some
             IN  [conversation_history |-> ctx2,
                  posts |-> TRUE,
                  request |-> body,
                  lastCall |->
                      IF raises
                      THEN [call EXCEPT !.posted = TRUE, !.outcome = outcome,
                                        !.generated = result,
                                        !.exception = "TypeError"]
                      ELSE [call EXCEPT
                              !.posted = TRUE, !.outcome = outcome,
                              !.generated = result, !.returned = TRUE,
                              !.result = [success |-> result.success,
                                          content |-> result.content,
                                          error |-> result.error,
                                          response_time |-> response_time,
                                          prompt_tokens |-> CountTokens(prompt),
                                          response_tokens |-> CountTokens(result.content.val),
                                          model |-> model]]]

\* a call of generate_response_with_context
GenerateResponseWithContext(prompt, api_key, include_context, streaming, outcome, content, response_time) ==
    /\ Len(conversation_history) + 2 <= MaxHistory
    /\ \E r \in {ContextCall(conversation_history, system_prompt, env, prompt,
                              api_key, include_context, streaming, outcome,
                              content, response_time)} :
          /\ conversation_history' = r.conversation_history
          /\ request' = IF r.posts THEN r.request ELSE request
          /\ lastCall' = r.lastCall
    /\ UNCHANGED <<env, pending, session_api_keys, system_prompt, analytics_file, applied, routerCall, storeCall, authVars, flowVars>>

\* variant: the directive is reset with the messages
ClearConversationContextAndDirective ==
    /\ conversation_history' = << >>
    /\ system_prompt' = DefaultSystemPrompt
    /\ lastCall' = CallRecord("clear_conversation_context")
    /\ UNCHANGED <<env, pending, session_api_keys, request, analytics_file,
                   applied, routerCall, storeCall, authVars, flowVars>>

\* clear_conversation_context
ClearConversationContext ==
    /\ conversation_history' = << >>
    /\ lastCall' = CallRecord("clear_conversation_context")
    /\ UNCHANGED <<env, pending, session_api_keys, system_prompt, request, analytics_file,
                   applied, routerCall, storeCall, authVars, flowVars>>

\* set_system_prompt(prompt)
SetSystemPrompt(prompt) ==
    /\ system_prompt' = prompt
    /\ lastCall' = CallRecord("set_system_prompt")
    /\ UNCHANGED <<env, pending, session_api_keys, conversation_history, request,
                   analytics_file, applied, routerCall, storeCall, authVars, flowVars>>

Init ==
    /\ env = ContextEnv
    /\ InitSession
    /\ InitStore
    /\ InitRouterCall
    /\ InitAuth
    /\ InitFlow

Next ==
    \/ \E prompt \in Prompts, api_key \in CallKeys, include_context \in BOOLEAN,
          reply \in ProviderReplies :
          GenerateResponseWithContext(prompt, api_key, include_context, FALSE,
                                      reply[1], reply[2], reply[3])
    \/ \E prompt \in Prompts, api_key \in CallKeys, include_context \in BOOLEAN :
          GenerateResponseWithContext(prompt, api_key, include_context, TRUE,
                                      "content", "", FloatOf(1, 1))
    \/ ClearConversationContext
    \/ \E prompt \in Directives : SetSystemPrompt(prompt)

Spec == Init /\ [][Next]_vars

-----------------------------------------------------------------------------
(* Usage statistics: the operation *)

\* update_analytics(conversation_data), with the store readable / writable
UpdateAnalyticsCall(conversation_data, readable, writable) ==
    /\ Len(applied) < MaxRecords
    /\ \E analytics \in {LoadAnalytics(analytics_file, readable)} :
          \E updated \in {UpdateAnalytics(analytics, conversation_data)} :
             /\ analytics_file' = SaveAnalytics(analytics_file, updated, writable)
             /\ storeCall' = [StoreRecord("update_analytics") EXCEPT
                                 !.readable = readable, !.writable = writable,
                                 !.loaded = analytics, !.saved = updated]
    /\ applied' = Append(applied, conversation_data)
    /\ UNCHANGED <<env, pending, session_api_keys, conversation_history, system_prompt,
                   request, lastCall, routerCall, authVars, flowVars>>

NextAnalytics ==
    \E username \in Usernames, model \in UsedModels, response_time \in Latencies,
       tokens \in TokenCounts :
       UpdateAnalyticsCall(
           ConversationData(username, model, response_time, tokens[1], tokens[2]),
           TRUE, TRUE)

SpecAnalytics == Init /\ [][NextAnalytics]_vars

-----------------------------------------------------------------------------
(* The statistics store with failing reads and writes *)

\* save_conversation, called at second now: the conversation file is written,
\* then update_analytics runs; a failed write of the conversation file raises
\* before update_analytics
SaveConversation(dir, file, username, prompt, response, model, response_time, prompt_tokens, response_tokens, now, history_writable, readable, writable) ==
    LET conversation_data == ConversationData(username, model, response_time,
                                              prompt_tokens, response_tokens)
        analytics == LoadAnalytics(file, readable)
        updated   == UpdateAnalytics(analytics, conversation_data)
    IN  IF history_writable
        THEN [raised |-> FALSE,
              history_dir |-> DictSet(dir, Filename(username, now),
                                  HistoryDocument(conversation_data, prompt,
                                                  response, now)),
              analytics_file |-> SaveAnalytics(file, updated, writable),
              conversation_data |-> conversation_data,
              storeCall |-> [StoreRecord("save_conversation") EXCEPT
                                !.readable = readable, !.writable = writable,
                                !.loaded = analytics, !.saved = updated]]
        ELSE [raised |-> TRUE,
              history_dir |-> dir,
              analytics_file |-> file,
              conversation_data |-> conversation_data,
              storeCall |-> [StoreRecord("save_conversation") EXCEPT
                                !.raised = TRUE]]

\* a call of save_conversation
SaveConversationCall(username, prompt, response, model, response_time, prompt_tokens, response_tokens, now, history_writable, readable, writable) ==
    /\ Len(applied) < MaxRecords
    /\ now >= clock
    /\ now <= MaxClock
    /\ clock' = now
    /\ \E s \in {SaveConversation(history_dir, analytics_file, username, prompt,
                                   response, model, response_time, prompt_tokens,
                                   response_tokens, now, history_writable,
                                   readable, writable)} :
          /\ history_dir' = s.history_dir
          /\ analytics_file' = s.analytics_file
          /\ storeCall' = s.storeCall
          /\ applied' = IF s.raised THEN applied
                        ELSE Append(applied, s.conversation_data)
    /\ UNCHANGED <<env, pending, session_api_keys, conversation_history, system_prompt,
                   request, lastCall, routerCall, authVars, flowCall,
                   provider_calls, conversations>>

\* load_analytics
LoadAnalyticsCall(readable) ==
    /\ storeCall' = [StoreRecord("load_analytics") EXCEPT
                        !.readable = readable,
                        !.loaded = LoadAnalytics(analytics_file, readable)]
    /\ UNCHANGED <<env, pending, session_api_keys, conversation_history, system_prompt,
                   request, lastCall, analytics_file, applied, routerCall,
                   authVars, flowVars>>

\* get_analytics_summary
GetAnalyticsSummaryCall(readable) ==
    /\ \E analytics \in {LoadAnalytics(analytics_file, readable)} :
          storeCall' = [StoreRecord("get_analytics_summary") EXCEPT
                           !.readable = readable, !.loaded = analytics,
                           !.summary = GetAnalyticsSummary(analytics)]
    /\ UNCHANGED <<env, pending, session_api_keys, conversation_history, system_prompt,
                   request, lastCall, analytics_file, applied, routerCall,
                   authVars, flowVars>>

\* the records of this specification: username, model, response_time,
\* prompt_tokens, response_tokens
StoreInputs ==
    {<<"alice", Models[1], FloatOf(1, 1), 3, 5>>,
     <<"bob", Models[2], FloatOf(2, 1), 0, 0>>}

\* the failures of a save_conversation: none, the conversation file, the
\* read of the statistics, the write of the statistics
SaveFaults ==
    {<<TRUE, TRUE, TRUE>>, <<FALSE, TRUE, TRUE>>, <<TRUE, FALSE, TRUE>>,
     <<TRUE, TRUE, FALSE>>}

\* the calls of this specification happen within the second the clock shows
NextStore ==
    \/ \E r \in StoreInputs, readable \in BOOLEAN, writable \in BOOLEAN :
          UpdateAnalyticsCall(ConversationData(r[1], r[2], r[3], r[4], r[5]),
                              readable, writable)
    \/ \E r \in StoreInputs, faults \in SaveFaults :
          SaveConversationCall(r[1], "hi", "fine, thanks", r[2], r[3], r[4], r[5],
                               clock, faults[1], faults[2], faults[3])
    \/ \E readable \in BOOLEAN : LoadAnalyticsCall(readable)
    \/ \E readable \in BOOLEAN : GetAnalyticsSummaryCall(readable)

SpecStore == Init /\ [][NextStore]_vars

-----------------------------------------------------------------------------
(* update_analytics called by two sessions at the same time: the load and    *)
(* the save of a call are two steps, and nothing keeps another session's     *)
(* steps from running between them                                           *)

\* variant: the save reads the snapshot again
SavedByCallReloading(file, call) ==
    UpdateAnalytics(LoadAnalytics(file, TRUE), call.conversation_data)

\* the statistics a call saves: computed from the ones it loaded
SavedByCall(file, call) == UpdateAnalytics(call.loaded, call.conversation_data)

\* update_analytics up to and including analytics = load_analytics()
UpdateAnalyticsLoad(session, conversation_data) ==
    /\ ~pending[session].active
    /\ Len(applied) + Cardinality({t \in Sessions : pending[t].active}) < MaxRecords
    /\ pending' = [pending EXCEPT ![session] =
                       [active |-> TRUE,
                        loaded |-> LoadAnalytics(analytics_file, TRUE),
                        conversation_data |-> conversation_data]]
    /\ UNCHANGED <<env, session_api_keys, conversation_history, system_prompt,
                   request, lastCall, analytics_file, applied, routerCall,
                   storeCall, authVars, flowVars>>

\* the rest of update_analytics: the statistics are updated in memory and
\* save_analytics writes them
UpdateAnalyticsSave(session) ==
    /\ pending[session].active
    /\ \E updated \in {SavedByCall(analytics_file, pending[session])} :
          /\ analytics_file' = SaveAnalytics(analytics_file, updated, TRUE)
          /\ storeCall' = [StoreRecord("update_analytics") EXCEPT
                              !.loaded = pending[session].loaded,
                              !.saved = updated]
    /\ applied' = Append(applied, pending[session].conversation_data)
    /\ pending' = [pending EXCEPT ![session] = NotUpdating]
    /\ UNCHANGED <<env, session_api_keys, conversation_history, system_prompt,
                   request, lastCall, routerCall, authVars, flowVars>>

NextRace ==
    \/ \E session \in Sessions, r \in StoreInputs :
          UpdateAnalyticsLoad(session, ConversationData(r[1], r[2], r[3], r[4], r[5]))
    \/ \E session \in Sessions : UpdateAnalyticsSave(session)

SpecRace == Init /\ [][NextRace]_vars

-----------------------------------------------------------------------------
(* The conversation files of two users, saved and read back *)

\* get_user_conversations(username), os.listdir listing the files in the
\* order listing
GetUserConversationsCall(username, listing) ==
    /\ storeCall' = [StoreRecord("get_user_conversations") EXCEPT
                        !.username = username,
                        !.conversations =
                            GetUserConversations(history_dir, username, listing)]
    /\ UNCHANGED <<env, pending, session_api_keys, conversation_history, system_prompt,
                   request, lastCall, analytics_file, applied, routerCall,
                   authVars, flowVars>>

\* export_user_history_json(username)
ExportUserHistoryJsonCall(username, listing) ==
    /\ \E export \in {ExportUserHistoryJson(history_dir, username, listing, clock)} :
          storeCall' = [StoreRecord("export_user_history_json") EXCEPT
                           !.username = username,
                           !.conversations = export.conversations,
                           !.export = export]
    /\ UNCHANGED <<env, pending, session_api_keys, conversation_history, system_prompt,
                   request, lastCall, analytics_file, applied, routerCall,
                   authVars, flowVars>>

\* two usernames validate_registration_form accepts
HistoryUsers == {"bob", "bob_2"}

\* the orders in which os.listdir can list the files
Listings == Permutations(DOMAIN history_dir)

NextHistory ==
    \/ \E username \in HistoryUsers, prompt \in Prompts,
          now \in {clock, Min(clock + 1, MaxClock)}, history_writable \in BOOLEAN :
          /\ Len(applied) < MaxSaved
          /\ SaveConversationCall(username, prompt, "fine, thanks", Models[1],
                               FloatOf(1, 1), CountTokens(prompt), 3, now,
                               history_writable, TRUE, TRUE)
    \/ \E username \in HistoryUsers, listing \in Listings :
          GetUserConversationsCall(username, listing)
    \/ \E username \in HistoryUsers, listing \in Listings :
          ExportUserHistoryJsonCall(username, listing)

SpecHistory == Init /\ [][NextHistory]_vars

-----------------------------------------------------------------------------
(* get_analytics_summary over statistics of many users *)

SummaryUsers == <<"u1", "u2", "u3", "u4", "u5", "u6", "u7", "u8">>

\* the numbers of conversations of one user, and the lengths of the cycle
\* of models
SummaryCounts == {1, 2}
SummaryCycles == {1, Len(Models)}

\* the records of users 1..Len(counts) in turn, user i having counts[i] of
\* them; the j-th record overall uses model ((j - 1) mod cycle) + 1
RECURSIVE SummaryRecords(_, _)
SummaryRecords(counts, cycle) ==
    IF counts = << >> THEN << >>
    ELSE LET n      == Len(counts)
             before == SummaryRecords(SubSeq(counts, 1, n - 1), cycle)
             Record(j) == ConversationData(SummaryUsers[n],
                              Models[((Len(before) + j - 1) % cycle) + 1],
                              FloatOf(1, 1), 3, 5)
         IN  before \o [j \in 1..counts[n] |-> Record(j)]

\* the statistics after update_analytics was applied to each record in turn
RECURSIVE FoldUpdates(_)
FoldUpdates(records) ==
    IF records = << >> THEN ZeroAnalytics
    ELSE UpdateAnalytics(FoldUpdates(SubSeq(records, 1, Len(records) - 1)),
                         records[Len(records)])

InitSummary ==
    /\ env = ContextEnv
    /\ InitSession
    /\ InitRouterCall
    /\ InitAuth
    /\ InitFlow
    /\ storeCall = StoreRecord("")
    /\ pending = [session \in Sessions |-> NotUpdating]
    /\ \E users \in 0..Min(MaxSummaryUsers, Len(SummaryUsers)),
          cycle \in SummaryCycles :
          \E counts \in [1..users -> SummaryCounts] :
             /\ applied = SummaryRecords(counts, cycle)
             /\ analytics_file =
                    IF users = 0 THEN NoFile
                    ELSE SaveAnalytics(NoFile,
                             FoldUpdates(SummaryRecords(counts, cycle)), TRUE)

NextSummary == GetAnalyticsSummaryCall(TRUE)

SpecSummary == InitSummary /\ [][NextSummary]_vars

-----------------------------------------------------------------------------
(* Login and logout *)

\* login_user(username, password) at second now; id is the uuid drawn,
\* rows_read the rows of users.csv read before an error (all without one)
LoginUser(username, password, now, id, rows_read, creatable, log_writable) ==
    /\ Len(user_log.rows) < MaxLogins
    /\ now >= clock
    /\ now <= MaxClock
    /\ clock' = now
    /\ LET loads    == username # "" /\ password # ""
           csv      == IF loads THEN EnsureUsersCsvExists(users_csv, creatable)
                       ELSE users_csv
           accepted == AuthenticateUser(username, password,
                                        LoadUsersFromCsv(csv, rows_read))
       IN  /\ users_csv' = csv
           /\ authCall' = [AuthRecord("login_user") EXCEPT
                              !.username = username, !.password = password,
                              !.rows_read = rows_read,
                              !.log_writable = log_writable,
                              !.accepted = accepted,
                              !.result = LoginResult(accepted, username)]
           /\ IF accepted
              THEN /\ session_authenticated' = TRUE
                   /\ session_username' = username
                   /\ user_log' = LogUserActivity(user_log, username, now, id,
                                                  log_writable)
                   /\ session_id' = IF log_writable THEN id ELSE session_id
              ELSE UNCHANGED <<session_authenticated, session_username,
                               user_log, session_id>>
    /\ UNCHANGED <<env, pending, session_api_keys, conversation_history, system_prompt,
                   request, lastCall, analytics_file, applied, routerCall,
                   storeCall, flowCall, provider_calls, conversations,
                   history_dir>>

\* logout_user: clear_session_state
LogoutUser ==
    /\ session_authenticated' = FALSE
    /\ session_username' = ""
    /\ session_api_keys' = << >>
    /\ authCall' = AuthRecord("logout_user")
    /\ UNCHANGED <<env, pending, conversation_history, system_prompt, request, lastCall,
                   analytics_file, applied, routerCall, storeCall, users_csv,
                   user_log, session_id, flowVars>>

AuthUsernames == {"", "admin", "alice"}
AuthPasswords == {"", "password123", "secret1"}
SessionIds == {"0a1b2c3d"}

\* contents of users.csv: absent, header only, a registered user, a row for
\* a demo account, two rows for one username
CsvContents ==
    {NoCsv,
     CsvOf(<< >>),
     CsvOf(<<UserRow("alice", "secret1")>>),
     CsvOf(<<UserRow("admin", "secret1"), UserRow("alice", "password123")>>),
     CsvOf(<<UserRow("alice", "password123"), UserRow("alice", "secret1")>>)}

InitAuthStore ==
    /\ env = ContextEnv
    /\ InitSession
    /\ InitStore
    /\ InitRouterCall
    /\ InitFlow
    /\ InitSessionAuth
    /\ user_log = NoCsv
    /\ users_csv \in CsvContents

NextAuth ==
    \/ \E username \in AuthUsernames, password \in AuthPasswords,
          now \in {clock, Min(clock + 1, MaxClock)}, id \in SessionIds,
          rows_read \in 0..Len(users_csv.rows),
          creatable \in (IF users_csv.exists THEN {TRUE} ELSE BOOLEAN),
          log_writable \in BOOLEAN :
          LoginUser(username, password, now, id, rows_read, creatable, log_writable)
    \/ LogoutUser

SpecAuth == InitAuthStore /\ [][NextAuth]_vars

-----------------------------------------------------------------------------
(* Registration and the login form, from a users.csv that does not exist *)

\* register_user(username, password, email) at second now; rows_read are the
\* rows of users.csv that user_exists reads before an error (all without
\* one), writable whether the row can be appended
RegisterUser(username, password, email, now, rows_read, creatable, writable) ==
    /\ Len(users_csv.rows) < MaxRegistered
    /\ now >= clock
    /\ now <= MaxClock
    /\ clock' = now
    /\ LET error  == ValidateRegistrationForm(username, password, email)
           csv    == IF error = NoError
                     THEN EnsureUsersCsvExists(users_csv, creatable)
                     ELSE users_csv
           exists == UserExists(username, LoadUsersFromCsv(csv, rows_read))
           call   == [AuthRecord("register_user") EXCEPT
                         !.username = username, !.password = password,
                         !.email = email, !.rows_read = rows_read,
                         !.writable = writable, !.validation_error = error]
       IN  IF error # NoError
           THEN /\ users_csv' = users_csv
                /\ authCall' = [call EXCEPT !.result = RegisterResult(FALSE, error)]
           ELSE IF exists
           THEN /\ users_csv' = csv
                /\ authCall' = [call EXCEPT !.result = RegisterResult(FALSE,
                       <<"Username already exists. Please choose a different username.">>)]
           ELSE /\ users_csv' = SaveUserToCsv(csv, username, password, email,
                                              now, writable)
                /\ authCall' =
                      IF writable
                      THEN [call EXCEPT !.accepted = TRUE,
                               !.result = RegisterResult(TRUE,
                                   <<"Registration successful! Welcome, ", username,
                                     "! You can now log in.">>)]
                      ELSE [call EXCEPT !.result = RegisterResult(FALSE,
                               <<"Registration failed. Please try again.">>)]
    /\ UNCHANGED <<env, pending, session_api_keys, conversation_history,
                   system_prompt, request, lastCall, analytics_file, applied,
                   routerCall, storeCall, user_log, session_authenticated,
                   session_username, session_id, flowCall, provider_calls,
                   conversations, history_dir>>

\* the login button of show_login_page: validate_login_form, then login_user
\* when the form is valid
LoginForm(username, password, now, id, rows_read, creatable, log_writable) ==
    \/ /\ ValidateLoginForm(username, password) = NoError
       /\ LoginUser(username, password, now, id, rows_read, creatable, log_writable)
    \/ /\ ValidateLoginForm(username, password) # NoError
       /\ authCall' = [AuthRecord("show_login_page") EXCEPT
                          !.username = username, !.password = password,
                          !.validation_error = ValidateLoginForm(username, password)]
       /\ UNCHANGED <<env, pending, session_api_keys, conversation_history,
                      system_prompt, request, lastCall, analytics_file, applied,
                      routerCall, storeCall, users_csv, user_log,
                      session_authenticated, session_username, session_id,
                      flowVars>>

\* what is typed into the registration form: the forms that are valid, and
\* one form for each check of validate_registration_form and for a demo
\* account
RegForms ==
    {<<"alice", "secret1", "">>, <<"alice", " secret1", "">>,
     <<"bob_2", "secret1", "a@b">>,
     <<"", "secret1", "">>, <<"alice", "   ", "">>, <<"al", "secret1", "">>,
     <<"alice", "abc12", "">>, <<"a b", "secret1", "">>, <<"___", "secret1", "">>,
     <<"alice", "secret1", "nomail">>, <<"admin", "secret1", "">>}

\* what is typed into the login form
LoginForms ==
    {<<"", "secret1">>, <<"alice", "   ">>, <<"alice", "secret1">>,
     <<"alice", " secret1">>, <<"bob_2", "secret1">>}

\* the calls of this specification happen within the second the clock
\* shows; a file that cannot be created cannot be appended to
NextRegister ==
    \/ \E form \in RegForms, rows_read \in 0..Len(users_csv.rows),
          creatable \in (IF users_csv.exists THEN {TRUE} ELSE BOOLEAN) :
          \E writable \in (IF creatable THEN BOOLEAN ELSE {FALSE}) :
             RegisterUser(form[1], form[2], form[3], clock, rows_read,
                          creatable, writable)
    \/ \E form \in LoginForms, id \in SessionIds,
          rows_read \in 0..Len(users_csv.rows),
          creatable \in (IF users_csv.exists THEN {TRUE} ELSE BOOLEAN) :
          LoginForm(form[1], form[2], clock, id, rows_read, creatable, TRUE)

SpecRegister == Init /\ [][NextRegister]_vars

\* the same calls with users.csv read without error every time
NextReadable ==
    \/ \E form \in RegForms,
          creatable \in (IF users_csv.exists THEN {TRUE} ELSE BOOLEAN) :
          \E writable \in (IF creatable THEN BOOLEAN ELSE {FALSE}) :
             RegisterUser(form[1], form[2], form[3], clock,
                          Len(users_csv.rows), creatable, writable)
    \/ \E form \in LoginForms, id \in SessionIds,
          creatable \in (IF users_csv.exists THEN {TRUE} ELSE BOOLEAN) :
          LoginForm(form[1], form[2], clock, id, Len(users_csv.rows),
                    creatable, TRUE)

SpecReadable == Init /\ [][NextReadable]_vars

-----------------------------------------------------------------------------
(* The page flows of a logged-in user: conversation, chat, model comparison *)

\* get_model_display_name
GetModelDisplayName(model) ==
    CASE model = "deepseek/deepseek-chat"           -> "DeepSeek Chat"
      [] model = "google/gemini-2.0-flash-exp:free" -> "Gemini 2.5 Pro"
      [] model = "01-ai/yi-large"                   -> "Yi Large (Kimi K2)"
      [] model = "qwen/qwen-2.5-72b-instruct"       -> "Qwen 2.5 72B"
      [] OTHER                                      -> model

\* the send handler of show_conversation_interface: a key is drawn,
\* generate_response_with_context is called and a successful result is
\* saved; an exception of the call ends the handler
ConversationFlow(prompt, use_context, api_key, outcome, content, response_time, now) ==
    /\ session_authenticated
    /\ session_api_keys # << >>
    /\ api_key \in GetRandomApiKey(session_api_keys)
    /\ provider_calls < MaxProviderCalls
    /\ Len(applied) < MaxRecords
    /\ Len(conversation_history) + 2 <= MaxHistory
    /\ now >= clock
    /\ now <= MaxClock
    /\ clock' = now
    /\ provider_calls' = provider_calls + 1
    /\ \E r \in {ContextCall(conversation_history, system_prompt, env, prompt,
                              api_key, use_context, FALSE, outcome, content,
                              response_time)} :
          /\ conversation_history' = r.conversation_history
          /\ request' = r.request
          /\ lastCall' = r.lastCall
          /\ IF r.lastCall.returned /\ r.lastCall.result.success
             THEN \E s \in {SaveConversation(history_dir, analytics_file,
                                 session_username, prompt,
                                 r.lastCall.result.content.val,
                                 r.lastCall.result.model,
                                 r.lastCall.result.response_time,
                                 r.lastCall.result.prompt_tokens,
                                 r.lastCall.result.response_tokens,
                                 now, TRUE, TRUE, TRUE)} :
                     /\ history_dir' = s.history_dir
                     /\ analytics_file' = s.analytics_file
                     /\ storeCall' = s.storeCall
                     /\ applied' = Append(applied, s.conversation_data)
                     /\ flowCall' = [flow |-> "conversation",
                                     results |-> <<r.lastCall.generated>>,
                                     saved |-> 1]
             ELSE /\ flowCall' = [flow |-> "conversation",
                                  results |-> <<r.lastCall.generated>>,
                                  saved |-> 0]
                  /\ UNCHANGED <<history_dir, analytics_file, storeCall, applied>>
    /\ UNCHANGED <<env, pending, session_api_keys, system_prompt, routerCall, authVars,
                   conversations>>

\* the generate handler of the chat tab: a key is drawn, generate_response
\* is called inside try/except; a successful result is rendered, kept in
\* st.session_state.conversations and saved; rendering content None raises
\* AttributeError, which the except reports
ChatFlow(prompt, api_key, outcome, content, response_time, now) ==
    /\ session_authenticated
    /\ session_api_keys # << >>
    /\ api_key \in GetRandomApiKey(session_api_keys)
    /\ provider_calls < MaxProviderCalls
    /\ Len(applied) < MaxRecords
    /\ now >= clock
    /\ now <= MaxClock
    /\ clock' = now
    /\ provider_calls' = provider_calls + 1
    /\ request' = RequestBody(prompt, api_key, env, None, None)
    /\ \E result \in {GenerateResponseResult(outcome, content)} :
          IF result.success /\ result.content.some
          THEN LET model_used      == GetModelForApiKey(api_key, env)
                   prompt_tokens   == CountTokens(prompt)
                   response_tokens == CountTokens(result.content.val)
               IN  \E s \in {SaveConversation(history_dir, analytics_file,
                                  session_username, prompt, result.content.val,
                                  model_used, response_time, prompt_tokens,
                                  response_tokens, now, TRUE, TRUE, TRUE)} :
                      /\ conversations' = Append(conversations,
                            [prompt          |-> prompt,
                             response        |-> result.content.val,
                             model           |-> GetModelDisplayName(model_used),
                             timestamp       |-> now,
                             response_time   |-> response_time,
                             prompt_tokens   |-> prompt_tokens,
                             response_tokens |-> response_tokens])
                      /\ history_dir' = s.history_dir
                      /\ analytics_file' = s.analytics_file
                      /\ storeCall' = s.storeCall
                      /\ applied' = Append(applied, s.conversation_data)
                      /\ flowCall' = [flow |-> "chat", results |-> <<result>>,
                                      saved |-> 1]
          ELSE /\ flowCall' = [flow |-> "chat", results |-> <<result>>,
                               saved |-> 0]
               /\ UNCHANGED <<conversations, history_dir, analytics_file,
                              storeCall, applied>>
    /\ UNCHANGED <<env, pending, session_api_keys, conversation_history, system_prompt,
                   lastCall, routerCall, authVars>>

\* one result of compare_models: the result of generate_response with the
\* metrics; the TypeError of count_tokens(None) is caught and turned into a
\* failure
CompareResult(prompt, api_key, environ, outcome, content, response_time) ==
    LET result == GenerateResponseResult(outcome, content)
        model  == GetModelForApiKey(api_key, environ)
    IN  IF result.success /\ result.content.some
        THEN [success |-> TRUE, content |-> result.content, error |-> None,
              response_time |-> response_time,
              prompt_tokens |-> CountTokens(prompt),
              response_tokens |-> CountTokens(result.content.val),
              model |-> model]
        ELSE [success |-> FALSE, content |-> None,
              error |-> IF result.success THEN Some("Error: ") ELSE result.error,
              response_time |-> Zero,
              prompt_tokens |-> CountTokens(prompt),
              response_tokens |-> 0,
              model |-> model]

\* the keys whose checkbox is selected, in the order of the session's keys
RECURSIVE SelectedKeys(_, _, _)
SelectedKeys(api_keys, selected, i) ==
    IF i > Len(api_keys) THEN << >>
    ELSE (IF i \in selected THEN <<api_keys[i]>> ELSE << >>)
             \o SelectedKeys(api_keys, selected, i + 1)

\* the saves of the rendering loop of show_model_comparison: each
\* successful result is saved in turn, the i-th at second nows[i]
RECURSIVE SaveResults(_, _, _, _, _)
SaveResults(store, username, prompt, results, nows) ==
    IF results = << >> THEN store
    ELSE LET n      == Len(results)
             before == SaveResults(store, username, prompt,
                                   SubSeq(results, 1, n - 1), nows)
             s      == SaveConversation(before.history_dir, before.analytics_file,
                           username, prompt, results[n].content.val,
                           results[n].model, results[n].response_time,
                           results[n].prompt_tokens, results[n].response_tokens,
                           nows[n], TRUE, TRUE, TRUE)
         IN  IF results[n].success
             THEN [history_dir |-> s.history_dir,
                   analytics_file |-> s.analytics_file,
                   storeCall |-> s.storeCall,
                   applied |-> Append(before.applied, s.conversation_data)]
             ELSE before

\* the compare handler of show_model_comparison: compare_models calls
\* generate_response for each selected key, then each successful result is
\* rendered and saved
CompareFlow(prompt, selected, replies, nows) ==
    /\ session_authenticated
    /\ session_api_keys # << >>
    /\ selected # {}
    /\ selected \subseteq DOMAIN session_api_keys
    /\ provider_calls + Cardinality(selected) <= MaxProviderCalls
    /\ Len(applied) + Cardinality(selected) <= MaxRecords
    /\ nows[1] >= clock
    /\ \A i \in DOMAIN nows : nows[i] <= MaxClock
    /\ \A i, j \in DOMAIN nows : i < j => nows[i] <= nows[j]
    /\ clock' = nows[Len(nows)]
    /\ provider_calls' = provider_calls + Cardinality(selected)
    /\ LET selected_keys == SelectedKeys(session_api_keys, selected, 1)
           results == [i \in DOMAIN selected_keys |->
                          CompareResult(prompt, Some(selected_keys[i]), env,
                                        replies[i][1], replies[i][2], replies[i][3])]
       IN  /\ request' = RequestBody(prompt, Some(selected_keys[Len(selected_keys)]),
                                     env, None, None)
           /\ \E store \in {SaveResults([history_dir |-> history_dir,
                                          analytics_file |-> analytics_file,
                                          storeCall |-> storeCall,
                                          applied |-> applied],
                                         session_username, prompt, results, nows)} :
                 /\ history_dir' = store.history_dir
                 /\ analytics_file' = store.analytics_file
                 /\ storeCall' = store.storeCall
                 /\ applied' = store.applied
                 /\ flowCall' =
                       [flow |-> "compare",
                        results |-> [i \in DOMAIN selected_keys |->
                                        GenerateResponseResult(replies[i][1],
                                                               replies[i][2])],
                        saved |-> Len(store.applied) - Len(applied)]
    /\ UNCHANGED <<env, pending, session_api_keys, conversation_history, system_prompt,
                   lastCall, routerCall, authVars, conversations>>

\* the prompt typed in the flows
FlowPrompts == {"hi"}

\* what the provider call does in the flows: content, empty content, null
\* content, a transport error
FlowReplies ==
    {reply \in ProviderReplies :
        reply[1] \in {"content", "empty_content", "null_content", "request_error"}}

\* the session after admin has logged in at second 0 and the keys of the
\* environment have been loaded
InitApp ==
    /\ env = ContextEnv
    /\ session_api_keys = LoadApiKeys(ContextEnv)
    /\ conversation_history = << >>
    /\ system_prompt = DefaultSystemPrompt
    /\ request = NoRequest
    /\ lastCall = CallRecord("")
    /\ InitStore
    /\ InitRouterCall
    /\ InitFlow
    /\ users_csv = CsvOf(<< >>)
    /\ user_log = LogUserActivity(NoCsv, "admin", 0, "0a1b2c3d", TRUE)
    /\ session_authenticated = TRUE
    /\ session_username = "admin"
    /\ session_id = "0a1b2c3d"
    /\ authCall = [AuthRecord("login_user") EXCEPT
                      !.username = "admin", !.password = "password123",
                      !.accepted = TRUE,
                      !.result = LoginResult(TRUE, "admin")]

NextApp ==
    \/ \E prompt \in FlowPrompts, use_context \in BOOLEAN,
          api_key \in GetRandomApiKey(session_api_keys),
          reply \in FlowReplies, now \in clock..MaxClock :
          ConversationFlow(prompt, use_context, api_key, reply[1], reply[2],
                           reply[3], now)
    \/ \E prompt \in FlowPrompts, api_key \in GetRandomApiKey(session_api_keys),
          reply \in FlowReplies, now \in clock..MaxClock :
          ChatFlow(prompt, api_key, reply[1], reply[2], reply[3], now)
    \/ \E prompt \in FlowPrompts,
          selected \in (SUBSET DOMAIN session_api_keys) \ {{}} :
          \E replies \in [1..Cardinality(selected) -> FlowReplies],
             nows \in [1..Cardinality(selected) -> clock..MaxClock] :
             CompareFlow(prompt, selected, replies, nows)

SpecApp == InitApp /\ [][NextApp]_vars

-----------------------------------------------------------------------------
(* API client: the functions applied *)

\* initialize_api_keys: load, validate, store in the session
InitializeApiKeys ==
    /\ LET api_keys == LoadApiKeys(env)
           valid    == ValidateApiKeys(api_keys)
       IN  /\ session_api_keys' = IF valid THEN api_keys ELSE session_api_keys
           /\ routerCall' = [RouterRecord("validate_api_keys") EXCEPT
                                !.api_keys = api_keys, !.valid = valid]
    /\ UNCHANGED <<env, pending, conversation_history, system_prompt, request, lastCall,
                   analytics_file, applied, storeCall, authVars, flowVars>>

\* get_random_api_key(st.session_state.api_keys)
GetRandomApiKeyCall ==
    /\ \E chosen \in GetRandomApiKey(session_api_keys) :
          routerCall' = [RouterRecord("get_random_api_key") EXCEPT
                            !.api_keys = session_api_keys, !.chosen = chosen]
    /\ UNCHANGED <<env, pending, session_api_keys, conversation_history, system_prompt,
                   request, lastCall, analytics_file, applied, storeCall, authVars, flowVars>>

\* get_model_for_api_key(api_key)
GetModelForApiKeyCall(api_key) ==
    /\ routerCall' = [RouterRecord("get_model_for_api_key") EXCEPT
                         !.api_key = api_key, !.api_keys = LoadApiKeys(env),
                         !.model = GetModelForApiKey(api_key, env)]
    /\ UNCHANGED <<env, pending, session_api_keys, conversation_history, system_prompt,
                   request, lastCall, analytics_file, applied, storeCall, authVars, flowVars>>

InitRouter ==
    /\ env \in [1..NumKeyVars -> EnvValues]
    /\ InitSession
    /\ InitStore
    /\ InitRouterCall
    /\ InitAuth
    /\ InitFlow

NextRouter ==
    \/ InitializeApiKeys
    \/ GetRandomApiKeyCall
    \/ \E api_key \in ApiKeyArgs : GetModelForApiKeyCall(api_key)

SpecRouter == InitRouter /\ [][NextRouter]_vars

-----------------------------------------------------------------------------
(* One browser session used by one user after another: the conversation    *)
(* page, logout, login                                                      *)

\* what is typed into the login form of this specification
SessionLogins ==
    {<<"admin", "password123">>, <<"user", "user123">>, <<"user", "password123">>}

\* the calls of this specification happen within the second the clock
\* shows; show_main_app loads the keys and the conversation page sets the
\* directive for the user who is logged in
NextSession ==
    \/ \E prompt \in FlowPrompts, use_context \in BOOLEAN,
          api_key \in GetRandomApiKey(session_api_keys),
          reply \in FlowReplies :
          ConversationFlow(prompt, use_context, api_key, reply[1], reply[2],
                           reply[3], clock)
    \/ session_authenticated /\ InitializeApiKeys
    \/ \E prompt \in Directives : session_authenticated /\ SetSystemPrompt(prompt)
    \/ session_authenticated /\ LogoutUser
    \/ \E form \in SessionLogins, id \in SessionIds :
          /\ ~session_authenticated
          /\ LoginUser(form[1], form[2], clock, id, Len(users_csv.rows), TRUE, TRUE)

SpecSession == InitApp /\ [][NextSession]_vars

-----------------------------------------------------------------------------
(* Properties of the usage statistics (SpecAnalytics) *)

\* the statistics the snapshot holds
Stats == IF analytics_file.exists THEN JsonLoad(analytics_file.doc) ELSE ZeroAnalytics
StatsAfter == IF analytics_file'.exists THEN JsonLoad(analytics_file'.doc) ELSE ZeroAnalytics

\* the count of a key, 0 when the dict has no entry for it
Count(d, key) == IF DictHas(d, key) THEN DictGet(d, key) ELSE 0

\* the sum of the latencies of the applied records, in units
RECURSIVE SumLatencyUnits(_)
SumLatencyUnits(records) ==
    IF records = << >> THEN 0
    ELSE Units(records[1].response_time) + SumLatencyUnits(Tail(records))

Abs(x) == IF x < 0 THEN -x ELSE x

\* avg_response_time * total_conversations - (sum of the applied latencies), in units
MeanError == Units(Stats.avg_response_time) * Stats.total_conversations
                 - SumLatencyUnits(applied)

\* C1 (as claimed): after every prefix of update_analytics calls from zero
\* statistics, avg_response_time * total_conversations equals the sum of the
\* applied latencies exactly.
C1_ExactMean ==
    /\ Stats.total_conversations = Len(applied)
    /\ MeanError = 0

\* C1 (amended): avg_response_time is the mean of the applied latencies up to
\* the rounding of the floating-point recurrence: the difference between
\* avg_response_time * total_conversations and the sum of the latencies is at
\* most 3 * n * 2^-Precision times that sum, and it is zero after the first call.
C1_MeanWithinRounding ==
    /\ Stats.total_conversations = Len(applied)
    /\ Abs(MeanError) * Pow2(Precision)
           <= 3 * Len(applied) * SumLatencyUnits(applied)
    /\ Len(applied) <= 1 => MeanError = 0

\* C1 witness: three records applied and the stored average is not the exact mean
C1_Witness ==
    /\ Len(applied) = 3
    /\ Stats.total_conversations = 3
    /\ MeanError # 0

\* C2: the model_usage counts and the user_activity counts each sum to
\* total_conversations after any number of update_analytics calls.
C2_CountsSumToTotal ==
    /\ SumValues(Stats.model_usage) = Stats.total_conversations
    /\ SumValues(Stats.user_activity) = Stats.total_conversations

\* C2 witness: several records over two models and two users
C2_Witness ==
    /\ Stats.total_conversations >= 3
    /\ Len(Stats.model_usage) = 2
    /\ Len(Stats.user_activity) = 2

\* C10: each update_analytics call adds 1 to total_conversations, the record's
\* prompt_tokens + response_tokens to total_tokens, 1 to the count of the
\* record's model and of the record's user (an absent entry is created at 1),
\* and changes no other model's or user's count.
C10_UpdateFrame ==
    [][Len(applied') = Len(applied) + 1 =>
         \E rec \in {applied'[Len(applied')]}, before \in {Stats}, after \in {StatsAfter} :
             /\ after.total_conversations = before.total_conversations + 1
             /\ after.total_tokens =
                    before.total_tokens + rec.prompt_tokens + rec.response_tokens
             /\ DictHas(after.model_usage, rec.model)
             /\ Count(after.model_usage, rec.model) =
                    Count(before.model_usage, rec.model) + 1
             /\ DictHas(after.user_activity, rec.username)
             /\ Count(after.user_activity, rec.username) =
                    Count(before.user_activity, rec.username) + 1
             /\ DictKeys(after.model_usage) =
                    DictKeys(before.model_usage) \cup {rec.model}
             /\ DictKeys(after.user_activity) =
                    DictKeys(before.user_activity) \cup {rec.username}
             /\ \A m \in DictKeys(before.model_usage) \ {rec.model} :
                    Count(after.model_usage, m) = Count(before.model_usage, m)
             /\ \A u \in DictKeys(before.user_activity) \ {rec.username} :
                    Count(after.user_activity, u) = Count(before.user_activity, u)
    ]_vars

\* C10 witness: an entry was created at 1 beside an entry that kept its count of 2,
\* and the tokens of the records were added
C10_Witness ==
    /\ Len(applied) = 3
    /\ Len(Stats.model_usage) = 2
    /\ Stats.model_usage[1].v = 2
    /\ Stats.model_usage[2].v = 1
    /\ applied[3].model = Stats.model_usage[2].k
    /\ Stats.total_tokens = 16

-----------------------------------------------------------------------------
(* Properties of the conversation context (Spec) *)

\* this step is a call of generate_response_with_context that posted a request
PostedCall ==
    /\ Len(conversation_history') > Len(conversation_history)
    /\ lastCall'.op = "generate_response_with_context"
    /\ lastCall'.posted

\* the system message of a directive, none for the empty directive
DirectiveMessages(directive) ==
    IF directive = "" THEN << >> ELSE <<[role |-> "system", content |-> directive]>>

SystemPositions(messages) == {i \in DOMAIN messages : messages[i].role = "system"}

\* C3: a call with include_context=true sends the directive (if set), then the
\* context as it was before the call, then the new user message, which so
\* appears once, last, and not inside the history slice.
C3_RequestWithHistory ==
    [][PostedCall /\ lastCall'.include_context =>
          /\ request'.messages =
                 DirectiveMessages(system_prompt) \o conversation_history
                     \o <<[role |-> "user", content |-> lastCall'.prompt]>>
          /\ Len(request'.messages) =
                 Len(DirectiveMessages(system_prompt)) + Len(conversation_history) + 1
    ]_vars

\* C3 witness: the request of the second exchange is [directive, U1, A1, U2],
\* with U2 the same text as U1
C3_Witness ==
    /\ lastCall.op = "generate_response_with_context"
    /\ lastCall.posted /\ lastCall.include_context
    /\ Len(request.messages) = 4
    /\ request.messages[1] = [role |-> "system", content |-> system_prompt]
    /\ request.messages[2] = [role |-> "user", content |-> lastCall.prompt]
    /\ request.messages[3].role = "assistant"
    /\ request.messages[4] = [role |-> "user", content |-> lastCall.prompt]
    /\ SubSeq(conversation_history, 1, 3) = SubSeq(request.messages, 2, 4)

\* C4: a call with include_context=false sends the new user message only,
\* whatever the context and the directive hold.
C4_RequestWithoutHistory ==
    [][PostedCall /\ ~lastCall'.include_context =>
          request'.messages = <<[role |-> "user", content |-> lastCall'.prompt]>>
    ]_vars

\* C4 witness: a one-message request sent over a context of earlier turns and
\* a directive
C4_Witness ==
    /\ lastCall.op = "generate_response_with_context"
    /\ lastCall.posted /\ ~lastCall.include_context
    /\ Len(conversation_history) >= 3
    /\ system_prompt # ""
    /\ request.messages = <<[role |-> "user", content |-> lastCall.prompt]>>

\* C5: the stored conversation holds no system message, and a request built
\* with history and a non-empty directive has the directive as its first
\* message and as its only system message.
C5_DirectiveOnlyInRequest ==
    /\ SystemPositions(conversation_history) = {}
    /\ (/\ lastCall.op = "generate_response_with_context"
        /\ lastCall.posted /\ lastCall.include_context
        /\ system_prompt # "")
       => /\ request.messages[1] = [role |-> "system", content |-> system_prompt]
          /\ SystemPositions(request.messages) = {1}

\* C5 witness: a request with earlier turns after the directive
C5_Witness ==
    /\ lastCall.op = "generate_response_with_context"
    /\ lastCall.posted /\ lastCall.include_context
    /\ system_prompt = "Be terse."
    /\ Len(request.messages) >= 4
    /\ SystemPositions(request.messages) = {1}
    /\ Len(conversation_history) >= 3

-----------------------------------------------------------------------------
(* Properties of the API client (SpecRouter) *)

\* the 1-based positions of a key in a list
Positions(list, key) == {i \in DOMAIN list : list[i] = key}

ModelCall == routerCall.fn = "get_model_for_api_key"

\* C6: get_model_for_api_key returns the first model of the table,
\* "deepseek/deepseek-chat", when no credential is loaded, when the credential
\* is not among the loaded ones, and when its position is beyond the table; it
\* always returns a model of the table.
C6_DefaultModel ==
    ModelCall =>
        LET keys == routerCall.api_keys
            pos  == IF routerCall.api_key.some
                    THEN Positions(keys, routerCall.api_key.val) ELSE {}
        IN  /\ routerCall.model \in {Models[i] : i \in DOMAIN Models}
            /\ (\/ keys = << >>
                \/ pos = {}
                \/ \A i \in pos : i > Len(Models))
               => /\ routerCall.model = Models[1]
                  /\ routerCall.model = "deepseek/deepseek-chat"

\* C6 witness: four credentials are loaded, the one asked for is not among them
C6_Witness ==
    /\ ModelCall
    /\ Len(routerCall.api_keys) = 4
    /\ routerCall.api_key.some
    /\ Positions(routerCall.api_keys, routerCall.api_key.val) = {}
    /\ routerCall.model = "deepseek/deepseek-chat"

\* C7: for a loaded credential, get_model_for_api_key returns the model at the
\* position of its first occurrence in the loaded list.
C7_ModelAtFirstPosition ==
    (/\ ModelCall
     /\ routerCall.api_key.some
     /\ Positions(routerCall.api_keys, routerCall.api_key.val) # {})
    => LET pos == Positions(routerCall.api_keys, routerCall.api_key.val)
           first == CHOOSE i \in pos : \A j \in pos : i <= j
       IN  /\ first <= Len(Models)
           /\ routerCall.model = Models[first]

\* C7 witness: the credential occurs twice, at positions 2 and 4
C7_Witness ==
    /\ ModelCall
    /\ routerCall.api_key.some
    /\ Positions(routerCall.api_keys, routerCall.api_key.val) = {2, 4}
    /\ routerCall.model = Models[2]

RandomCall == routerCall.fn = "get_random_api_key"

\* C8: get_random_api_key returns None for the empty list and an element of a
\* non-empty list; every element is a possible result; the list is unchanged.
C8_RandomKey ==
    /\ RandomCall =>
          /\ session_api_keys = routerCall.api_keys
          /\ routerCall.api_keys = << >> => ~routerCall.chosen.some
          /\ routerCall.api_keys # << >> =>
                /\ routerCall.chosen.some
                /\ Positions(routerCall.api_keys, routerCall.chosen.val) # {}
    /\ \A i \in DOMAIN session_api_keys :
          ENABLED (/\ GetRandomApiKeyCall
                   /\ routerCall'.chosen.some
                   /\ routerCall'.chosen.val = session_api_keys[i])
    /\ session_api_keys = << >> =>
          ENABLED (GetRandomApiKeyCall /\ ~routerCall'.chosen.some)

\* C8 witness: the third of three distinct keys was chosen
C8_Witness ==
    /\ RandomCall
    /\ Len(routerCall.api_keys) = 3
    /\ routerCall.chosen.some
    /\ Positions(routerCall.api_keys, routerCall.chosen.val) = {3}

\* a key begins with the characters of "sk-or-v1-"
HasPrefix(key) ==
    /\ Len(key) >= 9
    /\ <<key[1], key[2], key[3], key[4], key[5], key[6], key[7], key[8], key[9]>>
           = <<"s", "k", "-", "o", "r", "-", "v", "1", "-">>

\* C9: validate_api_keys is false for the empty list and for a list with a
\* key that lacks the prefix "sk-or-v1-", and true for every list of one or
\* more keys that all have it.
C9_Validate ==
    routerCall.fn = "validate_api_keys" =>
        routerCall.valid =
            (/\ routerCall.api_keys # << >>
             /\ \A i \in DOMAIN routerCall.api_keys : HasPrefix(routerCall.api_keys[i]))

\* C9 witness: three prefixed keys, one of them the bare prefix, are accepted
C9_Witness ==
    /\ routerCall.fn = "validate_api_keys"
    /\ routerCall.valid
    /\ Len(routerCall.api_keys) = 3
    /\ Positions(routerCall.api_keys, KeyBare) # {}

\* ---------------------------------------------------------------------
\* Persistence of the statistics
\* ---------------------------------------------------------------------

\* the last call was an update_analytics whose save wrote the file
StoredUpdate == storeCall.op = "update_analytics" /\ storeCall.writable

\* C11: loading the file that a successful save wrote yields the statistics
\* that were saved, and the file holds that one snapshot only, the previous
\* content being replaced.
C11_RoundTrip ==
    StoredUpdate =>
        /\ analytics_file.exists
        /\ Len(analytics_file.doc) = Len(AnalyticsFields)
        /\ LoadAnalytics(analytics_file, TRUE) = storeCall.saved

\* C11 witness: the third snapshot replaced the second; it has a fractional
\* mean and two models
C11_Witness ==
    /\ StoredUpdate
    /\ Len(applied) = 3
    /\ storeCall.loaded.total_conversations = 2
    /\ storeCall.saved.avg_response_time.e < 0
    /\ Len(storeCall.saved.model_usage) = 2

\* the calls that apply a record, when they got as far as update_analytics
AppliedRecord(call) ==
    call.op \in {"update_analytics", "save_conversation"} /\ ~call.raised

\* the calls that load the statistics
LoadedStatistics(call) ==
    \/ AppliedRecord(call)
    \/ call.op \in {"load_analytics", "get_analytics_summary"}

\* C12: when the save of an update_analytics fails, the statistics that the
\* next update_analytics or get_analytics_summary works from are the ones
\* the failed call computed, the record included.
C12_FailedSaveKept ==
    [][(/\ AppliedRecord(storeCall)
        /\ ~storeCall.writable
        /\ LoadedStatistics(storeCall')
        /\ storeCall'.op # "load_analytics"
        /\ storeCall'.readable)
       => storeCall'.loaded = storeCall.saved]_vars

\* statistics b have every count of statistics a, none smaller
Grown(a, b) ==
    /\ b.total_conversations >= a.total_conversations
    /\ b.total_tokens >= a.total_tokens
    /\ \A i \in DOMAIN a.model_usage :
          /\ DictHas(b.model_usage, a.model_usage[i].k)
          /\ DictGet(b.model_usage, a.model_usage[i].k) >= a.model_usage[i].v
    /\ \A i \in DOMAIN a.user_activity :
          /\ DictHas(b.user_activity, a.user_activity[i].k)
          /\ DictGet(b.user_activity, a.user_activity[i].k) >= a.user_activity[i].v

\* C13: across save_conversation, update_analytics and load_analytics, failed
\* loads and saves included, no count of the statistics decreases and no
\* model_usage or user_activity entry is removed.
C13_OnlyGrows == [][Grown(Stats, StatsAfter)]_vars

\* C14: load_analytics does not raise and returns the zero statistics when
\* the file is absent or cannot be read or parsed; the first update applied
\* to the zero statistics sets avg_response_time to the record's latency.
C14_LoadDefaults ==
    /\ LoadedStatistics(storeCall) =>
          /\ storeCall.op = "load_analytics" => ~storeCall.raised
          /\ ~storeCall.readable => storeCall.loaded = ZeroAnalytics
          /\ (storeCall.op \in {"load_analytics", "get_analytics_summary"}
                 /\ ~analytics_file.exists) => storeCall.loaded = ZeroAnalytics
    /\ (AppliedRecord(storeCall) /\ storeCall.loaded = ZeroAnalytics) =>
          /\ storeCall.saved.total_conversations = 1
          /\ storeCall.saved.avg_response_time
                 = applied[Len(applied)].response_time

\* C14 witness: an update that could not read a file of two records started
\* again from zero
C14_Witness ==
    /\ storeCall.op = "update_analytics"
    /\ ~storeCall.readable
    /\ storeCall.writable
    /\ Len(applied) = 3
    /\ storeCall.saved.total_conversations = 1
    /\ storeCall.saved.avg_response_time = FloatOf(2, 1)

\* the position of a key in a dict
KeyPosition(d, key) == CHOOSE i \in DOMAIN d : d[i].k = key

\* list is a top list of dict d: at most TopN entries of d, in descending
\* count, each listed count at least every unlisted one, equal counts in the
\* order of d
TopList(list, d) ==
    /\ Len(list) <= TopN
    /\ \A i \in DOMAIN list :
          /\ DictHas(d, list[i].k)
          /\ DictGet(d, list[i].k) = list[i].v
    /\ \A i, j \in DOMAIN list :
          i < j => /\ list[i].k # list[j].k
                   /\ list[i].v >= list[j].v
                   /\ list[i].v = list[j].v =>
                          KeyPosition(d, list[i].k) < KeyPosition(d, list[j].k)
    /\ \A i \in DOMAIN d :
          (\A j \in DOMAIN list : list[j].k # d[i].k) =>
              \A j \in DOMAIN list : list[j].v >= d[i].v

\* C15: get_analytics_summary returns at most 5 models and at most 5 users
\* in descending count; every listed count is at least every unlisted one,
\* and entries of equal count are in the insertion order of the mapping.
C15_TopLists ==
    storeCall.op = "get_analytics_summary" =>
        /\ TopList(storeCall.summary.top_models, storeCall.loaded.model_usage)
        /\ TopList(storeCall.summary.top_users, storeCall.loaded.user_activity)

\* C15 witness: of six users five are listed; the first user, with one
\* conversation, comes after two later users with two, and one user is left out
C15_Witness ==
    /\ storeCall.op = "get_analytics_summary"
    /\ Len(storeCall.loaded.user_activity) = 6
    /\ Len(storeCall.summary.top_users) = TopN
    /\ storeCall.summary.top_users[1].v = 2
    /\ storeCall.summary.top_users[2].v = 2
    /\ storeCall.summary.top_users[3].k = "u1"
    /\ storeCall.summary.top_users[4].v = 1
    /\ Len(storeCall.summary.top_models) = 4

\* ---------------------------------------------------------------------
\* Results of the provider call
\* ---------------------------------------------------------------------

\* the last operation called generate_response
Generated == lastCall.op = "generate_response_with_context" /\ lastCall.posted

\* the outcomes of the provider call that are failures: a transport error,
\* timeout or non-2xx status; a body that is not the expected JSON; a body
\* with no choices
FailureOutcomes == {"request_error", "malformed_body", "no_choices"}

\* C16: generate_response returns, for a transport error, timeout, non-2xx
\* status, missing or empty choices or malformed body, the failure value
\* (success false, content null, a non-empty error) and otherwise success
\* true with the content and a null error; success true never comes with an
\* error.
C16_UniformResult ==
    Generated =>
        /\ lastCall.outcome \in FailureOutcomes =>
              /\ ~lastCall.generated.success
              /\ lastCall.generated.content = None
              /\ lastCall.generated.error.some
              /\ lastCall.generated.error.val # ""
        /\ lastCall.outcome \notin FailureOutcomes =>
              /\ lastCall.generated.success
              /\ lastCall.generated.error = None
              /\ lastCall.outcome = "content" =>
                     /\ lastCall.generated.content.some
                     /\ lastCall.generated.content.val \in Replies
              /\ lastCall.outcome = "empty_content" =>
                     lastCall.generated.content = Some("")
              /\ lastCall.outcome = "null_content" =>
                     lastCall.generated.content = None
        /\ ~(lastCall.generated.success /\ lastCall.generated.error.some)

\* C16 witness: a body without choices gave the failure value
C16_Witness ==
    /\ Generated
    /\ lastCall.outcome = "no_choices"
    /\ lastCall.generated =
          [success |-> FALSE, content |-> None,
           error |-> Some("No response content received")]

\* C17: when generate_response returns success false with content null,
\* generate_response_with_context does not raise and returns that result
\* extended with response_time, prompt_tokens, response_tokens and model.
C17_FailureReturned ==
    (Generated /\ ~lastCall.generated.success /\ lastCall.generated.content = None) =>
        /\ lastCall.exception = ""
        /\ lastCall.returned
        /\ ~lastCall.result.success
        /\ lastCall.result.content = None
        /\ lastCall.result.error = lastCall.generated.error
        /\ lastCall.result.prompt_tokens = CountTokens(lastCall.prompt)
        /\ lastCall.result.model = GetModelForApiKey(lastCall.api_key, env)

\* ---------------------------------------------------------------------
\* Login
\* ---------------------------------------------------------------------

\* the step is a call of login_user
LoginStep == authCall'.op = "login_user"

\* the log has one more row, for the user who logged in
RowAppended ==
    /\ Len(user_log'.rows) = Len(user_log.rows) + 1
    /\ SubSeq(user_log'.rows, 1, Len(user_log.rows)) = user_log.rows
    /\ user_log'.rows[Len(user_log'.rows)].username = authCall'.username

\* C19: login_user appends exactly one row to the login log and sets
\* authenticated and username in the session if and only if
\* authenticate_user accepts; a rejected login leaves the log,
\* authenticated and username as they were.
C19_LoginLogged ==
    [][LoginStep =>
          /\ authCall'.result.success = authCall'.accepted
          /\ authCall'.accepted =>
                /\ session_authenticated'
                /\ session_username' = authCall'.username
                /\ RowAppended
          /\ ~authCall'.accepted =>
                UNCHANGED <<user_log, session_authenticated, session_username>>]_vars

\* C19 amended: as C19 when the log file can be written; when it cannot,
\* an accepted login still sets authenticated and username and the log
\* stays as it was, so the log has at most one row per successful login.
C19_LoginLoggedWhenWritable ==
    [][LoginStep =>
          /\ authCall'.result.success = authCall'.accepted
          /\ authCall'.accepted =>
                /\ session_authenticated'
                /\ session_username' = authCall'.username
                /\ authCall'.log_writable => RowAppended
                /\ ~authCall'.log_writable => user_log' = user_log
          /\ ~authCall'.accepted =>
                UNCHANGED <<user_log, session_authenticated, session_username>>]_vars

\* C19 witness: the second accepted login, after a logout, has its row
C19_Witness ==
    /\ authCall.op = "login_user"
    /\ authCall.accepted
    /\ authCall.log_writable
    /\ session_authenticated
    /\ session_username = "alice"
    /\ Len(user_log.rows) = 2
    /\ user_log.rows[1].username = "admin"
    /\ user_log.rows[2].username = "alice"

\* the password of the last of the rows with the username, else the demo
\* account's, else none
EffectivePassword(rows, username) ==
    LET at == {i \in DOMAIN rows : rows[i].username = username}
    IN  IF at # {}
        THEN Some(rows[CHOOSE i \in at : \A j \in at : j <= i].password)
        ELSE IF \E i \in DOMAIN VALID_USERS : VALID_USERS[i].k = username
        THEN Some(DictGet(VALID_USERS, username))
        ELSE None

\* authenticate_user's answer for the table made of the demo accounts and rows
Accepts(rows) ==
    /\ authCall.username # ""
    /\ authCall.password # ""
    /\ EffectivePassword(rows, authCall.username) = Some(authCall.password)

\* C20: the effective user table is the demo accounts merged with the CSV
\* rows, a row overriding a demo account and a later row an earlier one;
\* authenticate_user is true exactly when username and password are
\* non-empty and the table maps the username to that password.
C20_EffectiveTable ==
    authCall.op = "login_user" => authCall.accepted = Accepts(users_csv.rows)

\* C20 amended: as C20 for the rows of users.csv that were read: all of
\* them when the file is read without an error, and those before the
\* error otherwise (none when the file cannot be opened).
C20_EffectiveTableOfRowsRead ==
    authCall.op = "login_user" =>
        authCall.accepted = Accepts(SubSeq(users_csv.rows, 1, authCall.rows_read))

\* C20 witness: admin's demo password is rejected and the row's password
\* accepted, both rows of the file having been read
C20_Witness ==
    /\ authCall.op = "login_user"
    /\ authCall.username = "admin"
    /\ authCall.password = "secret1"
    /\ authCall.accepted
    /\ authCall.rows_read = 2
    /\ Len(users_csv.rows) = 2

\* ---------------------------------------------------------------------
\* Usage records of the page flows
\* ---------------------------------------------------------------------

\* the number of results of generate_response with success true
Successes(results) == Cardinality({i \in DOMAIN results : results[i].success})

\* C18: in the conversation, chat and model-comparison flows,
\* total_conversations increases by exactly 1 for each provider call whose
\* result has success true and by 0 for each whose result has success false.
C18_OneRecordPerSuccess ==
    [][provider_calls' # provider_calls =>
          /\ Len(flowCall'.results) = provider_calls' - provider_calls
          /\ StatsAfter.total_conversations - Stats.total_conversations
                 = Successes(flowCall'.results)]_vars

-----------------------------------------------------------------------------
(* Properties of the conversation files (SpecHistory) *)

\* the files of dir whose document is of username at second timestamp
FilesOf(dir, username, timestamp) ==
    {i \in DOMAIN dir : dir[i].v.username = username /\ dir[i].v.timestamp = timestamp}

\* C21: the name of a conversation file is determined by the username and
\* the second of the call only: after a save_conversation of a user there is
\* exactly one file of that user and second, holding the document of this
\* call; it replaces the file an earlier call of the same user in the same
\* second left, and is a new file otherwise; every other file is as it was;
\* and each call runs update_analytics, so total_conversations grows by one
\* with each call.
C21_SameSecondOverwrites ==
    [][\A username \in HistoryUsers, prompt \in Prompts, now \in {clock'} :
          /\ Len(applied') > Len(applied)
          /\ applied'[Len(applied')].username = username
          /\ applied'[Len(applied')].prompt_tokens = CountTokens(prompt)
          /\ SaveConversationCall(username, prompt, "fine, thanks", Models[1],
                               FloatOf(1, 1), CountTokens(prompt), 3, now,
                               TRUE, TRUE, TRUE)
          => LET earlier == FilesOf(history_dir, username, now)
                 stored  == FilesOf(history_dir', username, now)
             IN  /\ Cardinality(stored) = 1
                 /\ \A i \in stored :
                       /\ history_dir'[i].k = Filename(username, now)
                       /\ history_dir'[i].v.prompt = prompt
                 /\ Len(history_dir') = IF earlier = {} THEN Len(history_dir) + 1
                                        ELSE Len(history_dir)
                 /\ \A i \in DOMAIN history_dir \ earlier :
                       history_dir'[i] = history_dir[i]
                 /\ Len(applied') = Len(applied) + 1
                 /\ StatsAfter.total_conversations = Stats.total_conversations + 1
      ]_vars

\* two calls of one user within one second, with different prompts, left one
\* file and counted two conversations
C21_Witness ==
    /\ storeCall.op = "save_conversation"
    /\ Len(applied) = 2
    /\ applied[1].username = applied[2].username
    /\ applied[1].prompt_tokens # applied[2].prompt_tokens
    /\ Len(history_dir) = 1
    /\ Stats.total_conversations = 2

-----------------------------------------------------------------------------
(* Two sessions in update_analytics (SpecRace) *)

\* C22: update_analytics has no mutual exclusion around its load, modify and
\* save: the save of a call writes the statistics the call loaded plus its
\* own record. When no other call saved between the load and the save of the
\* call (as in every sequential execution) the stored counts grow by the
\* record; when another call did, the records saved in between are dropped
\* from the stored counts.
C22_SaveOverwritesFromLoaded ==
    [][\A session \in Sessions :
          UpdateAnalyticsSave(session)
          => LET call == pending[session]
                 user == call.conversation_data.username
             IN  /\ StatsAfter.total_conversations
                        = call.loaded.total_conversations + 1
                 /\ Count(StatsAfter.user_activity, user)
                        = Count(call.loaded.user_activity, user) + 1
                 /\ StatsAfter.total_tokens
                        = call.loaded.total_tokens + call.conversation_data.total_tokens
                 /\ call.loaded = Stats
                        => StatsAfter.total_conversations
                               = Stats.total_conversations + 1
                 /\ call.loaded.total_conversations < Stats.total_conversations
                        => StatsAfter.total_conversations
                               <= Stats.total_conversations
      ]_vars

\* both sessions loaded before either saved, both calls have completed, and
\* the stored counts reflect only one of the two records
C22_Witness ==
    /\ Len(applied) = 2
    /\ \A session \in Sessions : ~pending[session].active
    /\ Stats.total_conversations = 1
    /\ SumValues(Stats.user_activity) = 1
    /\ SumValues(Stats.model_usage) = 1

-----------------------------------------------------------------------------
(* Frame of the context operations (Spec) *)

\* C23: clear_conversation_context sets the message sequence to empty and
\* leaves the system directive unchanged; set_system_prompt changes only the
\* directive and leaves the message sequence unchanged.
C23_ClearAndSetFrame ==
    [][/\ lastCall'.op = "clear_conversation_context"
          => /\ conversation_history' = << >>
             /\ system_prompt' = system_prompt
       /\ lastCall'.op = "set_system_prompt"
          => /\ conversation_history' = conversation_history
             /\ system_prompt' \in Directives
             /\ UNCHANGED <<session_api_keys, request, env>>
      ]_vars

\* the messages of an earlier exchange have been cleared and the directive
\* set before the exchange is still in place
C23_Witness ==
    /\ lastCall.op = "clear_conversation_context"
    /\ conversation_history = << >>
    /\ Len(request.messages) >= 3
    /\ system_prompt = "Be terse."

\* s is an initial part of t
IsPrefix(s, t) == Len(s) <= Len(t) /\ SubSeq(t, 1, Len(s)) = s

\* C24: between two resets the message sequence grows monotonically: a step
\* other than clear_conversation_context leaves the earlier sequence as a
\* prefix of the later one, and a call of generate_response_with_context
\* appends at the end the user message with its prompt and then at most one
\* assistant message with the content returned, one message at a time.
C24_MonotoneContext ==
    [][lastCall'.op # "clear_conversation_context"
          => /\ IsPrefix(conversation_history, conversation_history')
             /\ lastCall'.op = "generate_response_with_context"
                   => LET n     == Len(conversation_history)
                          added == Len(conversation_history') - n
                      IN  /\ added \in {1, 2}
                          /\ conversation_history'[n + 1]
                                 = Message("user", lastCall'.prompt)
                          /\ added = 2
                                => conversation_history'[n + 2]
                                      = Message("assistant",
                                                lastCall'.generated.content.val)
             /\ lastCall'.op = "set_system_prompt"
                   => conversation_history' = conversation_history
      ]_vars

\* two exchanges have been stored one after the other
C24_Witness ==
    /\ lastCall.op = "generate_response_with_context"
    /\ Len(conversation_history) = 4
    /\ conversation_history[2].role = "assistant"
    /\ conversation_history[4].role = "assistant"
    /\ conversation_history[1].content # conversation_history[3].content

-----------------------------------------------------------------------------
(* The model of the key of a numbered variable (SpecRouter) *)

\* every variable is unset or holds a key, and no two hold the same key
DistinctKeys(environ) ==
    \A i \in 1..NumKeyVars :
       environ[i].some =>
          /\ environ[i].val # << >>
          /\ \A j \in 1..NumKeyVars : j # i => environ[j] # environ[i]

\* C25: for every subset of the variables OPENROUTER_API_KEY_1..4 that is
\* set, with distinct values, get_model_for_api_key maps the key taken from
\* variable number i to the i-th model of the table, also when
\* lower-numbered variables are absent.
C25_ModelOfVariable ==
    (/\ routerCall.fn = "get_model_for_api_key"
     /\ routerCall.api_key.some
     /\ DistinctKeys(env))
    => \A i \in 1..NumKeyVars :
          env[i] = routerCall.api_key => routerCall.model = Models[i]

-----------------------------------------------------------------------------
(* Registration (SpecRegister) *)

\* the effective user table: the demo accounts with every row on top
EffectiveUsers(csv) == LoadUsersFromCsv(csv, Len(csv.rows))

\* no username is in two rows, and no row has the username of a demo account
OneRowPerUser(rows) ==
    /\ \A i, j \in DOMAIN rows : rows[i].username = rows[j].username => i = j
    /\ \A i \in DOMAIN rows : ~DictHas(VALID_USERS, rows[i].username)

\* C26: register_user adds a row to the user store only when the input
\* passes validation and the username is not already in the effective user
\* table (demo accounts or CSV); on a validation error or an existing
\* username it returns success false with a message and leaves the rows of
\* the store unchanged; so after any sequence of registrations no username
\* is in more than one row and no demo account is overridden.
C26_RegisterAddsNewUsersOnly ==
    [][authCall'.op = "register_user"
          => LET username == authCall'.username
                 valid    == ValidateRegistrationForm(username, authCall'.password,
                                                      authCall'.email) = NoError
                 known    == DictHas(EffectiveUsers(users_csv), username)
             IN  /\ users_csv'.rows # users_csv.rows
                       => /\ valid
                          /\ ~known
                          /\ Len(users_csv'.rows) = Len(users_csv.rows) + 1
                          /\ SubSeq(users_csv'.rows, 1, Len(users_csv.rows))
                                 = users_csv.rows
                          /\ users_csv'.rows[Len(users_csv'.rows)].username = username
                          /\ authCall'.result.success
                 /\ (~valid \/ known)
                       => /\ ~authCall'.result.success
                          /\ authCall'.result.message # << >>
                          /\ users_csv'.rows = users_csv.rows
                 /\ OneRowPerUser(users_csv'.rows)
      ]_vars

-----------------------------------------------------------------------------
(* Registration, then login, with a readable user store (SpecReadable) *)

\* a step of the login button of show_login_page
LoginFormStep == authCall'.op \in {"login_user", "show_login_page"}

-----------------------------------------------------------------------------
(* The conversations returned for a user (SpecHistory) *)

\* C27: get_user_conversations(u) and export_user_history_json(u) return
\* only records whose username field equals u: no record saved by another
\* user is returned for u.
C27_OwnRecordsOnly ==
    storeCall.op \in {"get_user_conversations", "export_user_history_json"}
    => \A i \in DOMAIN storeCall.conversations :
          storeCall.conversations[i].username = storeCall.username

-----------------------------------------------------------------------------
(* The context across users of one browser session (SpecSession) *)

\* C28: the conversation context does not survive a change of user: after
\* logout_user, and after a later accepted login_user in the same browser
\* session, the message sequence is empty and the system directive is the
\* default.
C28_ContextEndsWithLogout ==
    [][(\/ LogoutUser
        \/ \E form \in SessionLogins, id \in SessionIds :
              /\ LoginUser(form[1], form[2], clock, id, Len(users_csv.rows),
                           TRUE, TRUE)
              /\ session_authenticated')
       => /\ conversation_history' = << >>
          /\ system_prompt' = DefaultSystemPrompt
      ]_vars

-----------------------------------------------------------------------------
(* The roles of the stored messages (Spec) *)

\* C29: after any sequence of generate_response_with_context calls from an
\* empty context the stored messages strictly alternate user, assistant,
\* user, ..., starting with a user message: a call that yields no assistant
\* reply leaves no unanswered user message.
C29_StrictAlternation ==
    \A i \in DOMAIN conversation_history :
       conversation_history[i].role = IF i % 2 = 1 THEN "user" ELSE "assistant"

\* the call stored an assistant message
Replied(call) ==
    /\ ~call.streaming
    /\ call.generated.success
    /\ call.generated.content.some
    /\ call.generated.content.val # ""

\* C29, as the code has it: the stored messages start with a user message
\* and every assistant message directly follows a user message; a call
\* stores its user message first and an assistant message after it exactly
\* when the result is a success with non-empty content, so a call without
\* a reply leaves its user message unanswered at the end of the sequence.
C29_AssistantFollowsUser ==
    [][lastCall'.op = "generate_response_with_context"
          => LET after == conversation_history'
                 n     == Len(conversation_history)
             IN  /\ \A i \in DOMAIN after : after[i].role \in {"user", "assistant"}
                 /\ after[1].role = "user"
                 /\ \A i \in DOMAIN after :
                       after[i].role = "assistant" => after[i - 1].role = "user"
                 /\ after[n + 1].role = "user"
                 /\ Len(after) = IF Replied(lastCall') THEN n + 2 ELSE n + 1
                 /\ Replied(lastCall') => after[n + 2].role = "assistant"
      ]_vars

\* a call without a reply was followed by another call: two user messages
\* in a row
C29_Witness ==
    /\ lastCall.op = "generate_response_with_context"
    /\ Len(conversation_history) >= 2
    /\ conversation_history[1].role = "user"
    /\ conversation_history[2].role = "user"

====
